---- MODULE Spec2Model ----
(***************************************************************************)
(* Model of the SQN Trust dashboard: the metrics engine                    *)
(* (src/app/services/metrics.py), the filters (services/filters.py), the   *)
(* fixture loaders (services/data_loader.py) and the requests of the two   *)
(* front-ends (src/app/app.py, src/streamlit_app.py).                      *)
(*                                                                         *)
(* The engine and the filters are pure functions over three in-memory      *)
(* tables: the holdings, the NAV series and the transactions.  The state   *)
(* of the model is the tables plus the last call made and what it          *)
(* returned; every function is one action.  The loaders memoize what they  *)
(* read; a request loads the tables through them, filters and converts     *)
(* copies, and renders a tab from the result.                              *)
(*                                                                         *)
(* Numbers.  Money amounts are whole currency units.  Every quotient the   *)
(* code computes is kept as an exact fraction n/d in lowest terms; the     *)
(* three IEEE-754 specials that numpy and pandas produce on a division by  *)
(* zero are the fractions with d = 0:  1/0 = +inf, -1/0 = -inf, 0/0 = NaN. *)
(* Rounding of binary floating point is not modelled.                      *)
(***************************************************************************)
EXTENDS Integers, Sequences, FiniteSets, TLC

VARIABLES
    holdings,   \* the holdings table: a sequence of rows
    nav,        \* the NAV series: a sequence of (date, value)
    transactions, \* the transactions: a sequence of rows
    op,         \* the function called last ("init" before any call)
    arg,        \* its second argument (top_n, n, period_days, client), 0 if none
    res,        \* what it returned
    ownership,  \* the ownership fixture: whether ownership.json exists, its companies
    cache,      \* the memo of each fixture loader: <<>> or <<its result>>
    reads       \* how often each loader read its file since the last reload_data

vars == <<holdings, nav, transactions, op, arg, res, ownership, cache, reads>>

\* the tables; no function of the engine changes them
tables == <<holdings, nav, transactions, ownership>>

\* the memo of the loaders; no function of the engine touches it
memo == <<cache, reads>>

----------------------------------------------------------------------------
(* Bounds of the model *)

\* largest number of rows of a holdings table
MaxLen == 3
\* largest number of points of a NAV series
MaxNavLen == 3

----------------------------------------------------------------------------
(* float64 arithmetic as exact fractions with the IEEE specials *)

Sign(x) == IF x > 0 THEN 1 ELSE IF x < 0 THEN -1 ELSE 0

Abs(x) == IF x < 0 THEN -x ELSE x

RECURSIVE GCD(_, _)
GCD(a, b) == IF b = 0 THEN a ELSE GCD(b, a % b)

\* the float n/d: lowest terms, d > 0; d = 0 gives +inf, -inf or NaN
Norm(n, d) ==
    IF d = 0 THEN [n |-> Sign(n), d |-> 0]
    ELSE LET g == GCD(Abs(n), Abs(d))
         IN  [n |-> Sign(d) * (n \div g), d |-> Abs(d) \div g]

Fl(i) == [n |-> i, d |-> 1]

Zero == Fl(0)
PosInf == [n |-> 1, d |-> 0]
NegInf == [n |-> -1, d |-> 0]
NaN == [n |-> 0, d |-> 0]

IsNaN(x) == x.d = 0 /\ x.n = 0
IsInf(x) == x.d = 0 /\ x.n # 0
IsFinite(x) == x.d # 0

FMul(a, b) == Norm(a.n * b.n, a.d * b.d)

\* a / b; x/0 is +inf, -inf or NaN as in numpy (no exception)
FDiv(a, b) == FMul(a, Norm(b.d, b.n))

FAdd(a, b) ==
    IF IsInf(a) /\ IsInf(b) THEN (IF a.n = b.n THEN a ELSE NaN)
    ELSE IF a.d = 0 \/ b.d = 0 THEN Norm(a.n * b.d + b.n * a.d, 0)
    ELSE LET g == GCD(a.d, b.d)
         IN  Norm(a.n * (b.d \div g) + b.n * (a.d \div g), a.d * (b.d \div g))

FNeg(a) == [n |-> -a.n, d |-> a.d]

FSub(a, b) == FAdd(a, FNeg(b))

\* a < b; every comparison with NaN is false
FLt(a, b) ==
    IF IsNaN(a) \/ IsNaN(b) THEN FALSE
    ELSE IF IsInf(a) /\ IsInf(b) THEN a.n < b.n
    ELSE a.n * b.d < b.n * a.d

FLe(a, b) == FLt(a, b) \/ (~IsNaN(a) /\ a = b)

FGt(a, b) == FLt(b, a)

----------------------------------------------------------------------------
(* Tables *)

AssetTypes == {"Shares", "RealEstate", "Liquid"}
Regions == {"Europe", "NorthAmerica"}
\* "None" is a missing sector (NaN in the sector column)
Sectors == {"Technology", "Healthcare", "None"}
AssetNames == <<"A", "B", "C", "D", "E">>

\* valuations, in whole currency units
Vals == {0, 1, 2}

\* a row of the holdings table, before it gets its asset_name
\* (liquidity is the categorical column, dtype object)
Holding(t, r, s, cur, cost) ==
    [asset_type |-> t, region |-> r, sector |-> s,
     valuation_current |-> cur, valuation_cost_basis |-> cost,
     liquidity |-> [dtype |-> "object", v |-> IF t = "RealEstate" THEN "Small" ELSE "Large"]]

\* rows that differ in the two valuations only
PnlRows == {Holding("Shares", "Europe", "Technology", c, b) : c \in Vals, b \in Vals}

\* rows that differ in asset class and value (only Shares carry a sector)
AssetRows ==
    {Holding(t, "Europe", IF t = "Shares" THEN "Technology" ELSE "None", c, 1) :
        t \in AssetTypes, c \in Vals}

\* rows that differ in region and value
RegionRows == {Holding("Liquid", r, "None", c, 1) : r \in Regions, c \in Vals}

\* Shares with or without a sector, and rows of another class
SectorRows ==
    {Holding("Shares", "Europe", s, c, 1) : s \in Sectors, c \in Vals}
    \cup {Holding("Liquid", "Europe", "None", c, 1) : c \in Vals}

SeqsUpTo(S, n) == UNION {[1..k -> S] : k \in 0..n}

\* asset names are unique: the row at position i is asset AssetNames[i]
WithNames(t) == [i \in DOMAIN t |-> [asset_name |-> AssetNames[i]] @@ t[i]]

PnlTables == {WithNames(t) : t \in SeqsUpTo(PnlRows, MaxLen)}

AllocTables ==
    {WithNames(t) : t \in
        SeqsUpTo(AssetRows, MaxLen) \cup SeqsUpTo(RegionRows, MaxLen)
        \cup SeqsUpTo(SectorRows, MaxLen)}

\* the liquidity columns a holdings table can carry.  Every row of a table
\* has the same columns; a column's dtype is the same in every row.
\* categorical liquidity (dtype object): the three categories of the map, a
\* category outside it, and a missing entry ("None")
Categories == {"Large", "Moderate", "Small", "Illiquid", "None"}
CategoricalOnly == {[liquidity |-> [dtype |-> "object", v |-> c]] : c \in Categories}
\* both a categorical liquidity and a numeric liquidity_score (in tenths)
CategoricalAndScore ==
    {[liquidity |-> [dtype |-> "object", v |-> c], liquidity_score |-> 1] :
        c \in {"Large", "Small"}}
\* liquidity_score only
ScoreOnly == {[liquidity_score |-> x] : x \in {1, 8}}
\* the old numeric liquidity column (dtype float64) beside liquidity_score
NumericAndScore ==
    {[liquidity |-> [dtype |-> "float64", v |-> 3], liquidity_score |-> x] : x \in {1, 8}}
\* the old numeric liquidity column alone
NumericOnly == {[liquidity |-> [dtype |-> "float64", v |-> x]] : x \in {3, 8}}
\* no liquidity column at all
NoLiquidity == {<<>>}

\* a row with the liquidity columns liq
LiquidityRow(t, cur, liq) ==
    liq @@ [asset_type |-> t, region |-> "Europe", sector |-> "None",
            valuation_current |-> cur, valuation_cost_basis |-> 1]

LiquidityTables ==
    {WithNames(t) : t \in
        SeqsUpTo({LiquidityRow("Shares", c, l) : c \in Vals, l \in CategoricalOnly}, MaxLen)
        \cup SeqsUpTo({LiquidityRow("Shares", c, l) : c \in {1, 2}, l \in CategoricalAndScore}, MaxLen)
        \cup SeqsUpTo({LiquidityRow("Shares", c, l) : c \in Vals, l \in ScoreOnly}, MaxLen)
        \cup SeqsUpTo({LiquidityRow("Shares", c, l) : c \in {1, 2}, l \in NumericAndScore}, MaxLen)
        \cup SeqsUpTo({LiquidityRow("Shares", c, l) : c \in {0, 1}, l \in NumericOnly}, MaxLen)
        \cup SeqsUpTo({LiquidityRow(t, c, l) : t \in {"Shares", "Liquid"}, c \in Vals,
                                               l \in NoLiquidity}, MaxLen)}

\* a portfolio of two holdings: A, Shares, worth 600 bought for 500, and
\* B, Liquid, worth 400 bought for 400
ExampleHoldings ==
    <<[asset_name |-> "A", asset_type |-> "Shares", region |-> "Europe",
       sector |-> "Technology", valuation_current |-> 600, valuation_cost_basis |-> 500],
      [asset_name |-> "B", asset_type |-> "Liquid", region |-> "Europe",
       sector |-> "None", valuation_current |-> 400, valuation_cost_basis |-> 400]>>

\* tables for the insights: holdings that differ in value and cost, in asset
\* class, in liquidity category, and tables one row longer of equal rows
BandRows ==
    {LiquidityRow("Shares", c, [liquidity |-> [dtype |-> "object", v |-> l]]) :
        c \in Vals, l \in {"Large", "Moderate", "Small"}}

LongRows == {Holding("Shares", "Europe", "Technology", c, 1) : c \in Vals}

InsightTables ==
    PnlTables
    \cup {WithNames(t) : t \in
             SeqsUpTo(AssetRows, MaxLen) \cup SeqsUpTo(BandRows, MaxLen)
             \cup SeqsUpTo(LongRows, MaxLen + 1)}

\* a NAV point: the date in days since 1 January of year 0 (years of 365
\* days: 0 = 1 Jan, 181 = 1 Jul, 364 = 31 Dec, 365 = 1 Jan of the next year)
NavPoint(d, v) == [date |-> d, value |-> v]

\* series within one year, in any order and with repeated dates
DipRows == {NavPoint(d, v) : d \in {0, 181, 364}, v \in {80, 100, 120}}
SlideRows == {NavPoint(d, v) : d \in {0, 181, 364}, v \in {90, 100, 120}}
\* series across a turn of the year, with values of 0
TurnRows == {NavPoint(d, v) : d \in {0, 364, 365}, v \in {0, 100}}

NavTables ==
    SeqsUpTo(DipRows, MaxNavLen) \cup SeqsUpTo(SlideRows, MaxNavLen)
    \cup SeqsUpTo(TurnRows, MaxNavLen)

\* period_days of calculate_returns_from_nav
Windows == {-1, 0, 183, 365}

DaysPerYear == 365

\* Timestamp.year
Year(d) == d \div DaysPerYear

\* datetime(year, 1, 1)
YearStart(y) == y * DaysPerYear

\* the first day of each month within the year, and the month of a day
MonthStarts == <<0, 31, 59, 90, 120, 151, 181, 212, 243, 273, 304, 334>>
MonthOfYear(doy) == CHOOSE m \in 1..12 :
    MonthStarts[m] <= doy /\ (m = 12 \/ doy < MonthStarts[m + 1])

\* dt.to_period("M"): the calendar month of a date, as the number of months
\* since January of year 0 (its text "YYYY-MM" is one per month)
to_period_M(d) == 12 * Year(d) + MonthOfYear(d % DaysPerYear) - 1

\* a transaction: date, type and signed amount
TxTypes == {"buy", "sell", "dividend", "rent", "interest", "fee"}
TxRows == [date : {0, 40}, type : TxTypes, amount : {-1, 2}]

\* transactions that differ in month and amount (January and February of
\* one year, January of the next; an amount of 0 is neither in nor out)
CashflowRows == [date : {0, 40, 370}, type : {"buy"}, amount : {-2, -1, 0, 2}]
\* transactions of one month that differ in type and sign
IncomeRows == [date : {0}, type : TxTypes, amount : {-1, 2}]

TxTables == SeqsUpTo(CashflowRows, MaxLen) \cup SeqsUpTo(IncomeRows, MaxLen)

\* Python's None, where a filter criterion is not supplied
None == "None"

\* the tables the filters work on: rows of two accounts, two types and three
\* dates (day numbers), in any order and with repeated rows
MaxFilterLen == 2
AccountIds == {"ACC-1", "ACC-2"}
FilterDates == {10, 20, 30}
FilterHoldingRows ==
    [account_id : AccountIds, asset_type : {"Shares", "Cash"},
     last_valuation_date : FilterDates]
FilterTransactionRows ==
    [account_id : AccountIds, type : {"buy", "dividend"}, date : FilterDates]
\* a NAV row before filter_nav: the total and the column of account ACC-1
FilterNavRows == [date : FilterDates, total_value : {100}, value_ACC1 : {40, 60}]

\* the criteria: an account, a type (None, "all" or a value), and a date
\* range: None (<<>>) or a pair of bounds, each None (<<>>) or a date <<d>>
AccountCriteria == {None, "all", "ACC-1"}
HoldingTypeCriteria == {None, "all", "Cash"}
TransactionTypeCriteria == {None, "all", "buy"}
DateBounds == {<<>>, <<20>>}
DateRanges == {<<>>} \cup (DateBounds \X DateBounds)

\* ownership percentages around the two thresholds, halves included
Percentages == {Fl(0), Norm(49, 2), Fl(25), Fl(49), Norm(99, 2), Fl(50), Fl(100)}
\* a company of ownership.json; ownership_percentage may be missing
Companies == [ownership_percentage : Percentages] \cup {[country |-> "HU"]}
\* company names are unique: the one at position i is CompanyNames[i]
CompanyNames == <<"Alpha", "Beta", "Gamma">>
WithCompanyNames(t) == [i \in DOMAIN t |-> [name |-> CompanyNames[i]] @@ t[i]]
MaxCompanies == 2
\* ownership.json: missing, or a list of companies
NoOwnership == [exists |-> FALSE, companies |-> <<>>]
OneCompany ==
    [exists |-> TRUE,
     companies |-> <<[name |-> "Alpha", ownership_percentage |-> Fl(50)]>>]
OwnershipFiles ==
    {NoOwnership} \cup {[exists |-> TRUE, companies |-> WithCompanyNames(c)] :
                           c \in SeqsUpTo(Companies, MaxCompanies)}

\* the fixtures of the front-ends.  Amounts are whole hundreds, so that an
\* amount times a conversion rate with two decimals is a whole number.
MaxAppLen == 2
AppHoldingRows ==
    {Holding("Shares", "Europe", "Technology", 300, 200)
        @@ [account_id |-> "ACC-1", last_valuation_date |-> d] : d \in {10, 30}}
    \cup {Holding("Liquid", "Europe", "None", 100, 100)
        @@ [account_id |-> "ACC-2", last_valuation_date |-> 30]}
AppHoldings == {WithNames(t) : t \in SeqsUpTo(AppHoldingRows, MaxAppLen)}
AppNav ==
    <<[date |-> 10, total_value |-> 12000], [date |-> 20, total_value |-> 9000],
      [date |-> 30, total_value |-> 10000]>>
AppTransactions ==
    <<[account_id |-> "ACC-1", type |-> "buy", date |-> 10, amount |-> -100]>>

\* what a request carries: the tab, the bounds of the date picker, the
\* currency (GBP has no rate), the asset type and the language
Tabs == {"summary", "ownership", "insights", "reports", "about", "other"}
StartDates == {<<>>, <<10>>}
EndDates == {<<20>>}
Currencies == {"EUR", "USD", "HUF", "GBP"}
AssetTypeFilters == {"all", "Liquid"}
Langs == {None, "hu"}

\* the fewest NAV points the return and drawdown functions work on
MinReturnPoints == 2
\* the fewest NAV points calculate_volatility works on
MinVolatilityPoints == 3

----------------------------------------------------------------------------
(* pandas helpers *)

\* Series.sum(): 0 on an empty column
RECURSIVE SumCol(_, _)
SumCol(t, col) ==
    IF Len(t) = 0 THEN 0 ELSE t[1][col] + SumCol(Tail(t), col)

\* DataFrame.empty
Empty(t) == Len(t) = 0

\* df[df[col] == v]: the rows that pass, in table order
FilterEq(t, col, v) == SelectSeq(t, LAMBDA r : r[col] = v)

\* whether a row with key a may stand before a row with key b: NaN keys go
\* last (na_position = "last")
MayPrecede(a, b, ascending) ==
    \/ IsNaN(b)
    \/ ~IsNaN(a) /\ (IF ascending THEN FLe(a, b) ELSE FLe(b, a))

\* the orders in which the rows idxs can come out of a sort on keys
RECURSIVE SortedOrders(_, _, _)
SortedOrders(keys, idxs, ascending) ==
    IF idxs = {} THEN {<<>>}
    ELSE UNION {{<<i>> \o rest : rest \in SortedOrders(keys, idxs \ {i}, ascending)} :
                i \in {k \in idxs : \A j \in idxs : MayPrecede(keys[k], keys[j], ascending)}}

\* sort_values(by, ascending) on the column Key: pandas sorts with numpy's
\* quicksort, which is not stable, so rows with equal keys may come out in
\* any order; NaN keys go last.  The set of all orders the call can return.
sort_values(t, Key(_), ascending) ==
    LET keys == [i \in 1..Len(t) |-> Key(t[i])]
    IN  {[i \in 1..Len(t) |-> t[p[i]]] : p \in SortedOrders(keys, 1..Len(t), ascending)}

\* the first n rows (DataFrame.head, .iloc[:n])
HeadN(t, n) == SubSeq(t, 1, IF n < Len(t) THEN n ELSE Len(t))

\* the one descending order of the rows idxs that keeps rows with equal keys
\* in table order
RECURSIVE StableOrder(_, _)
StableOrder(keys, idxs) ==
    IF idxs = {} THEN <<>>
    ELSE LET i == CHOOSE k \in idxs : \A j \in idxs :
                      \/ FLt(keys[j], keys[k])
                      \/ keys[j] = keys[k] /\ k <= j
         IN  <<i>> \o StableOrder(keys, idxs \ {i})

\* the rows of t by Key descending, rows with equal keys in table order
\* (the mergesort of the selection algorithm); t has no NaN key
StableDesc(t, Key(_)) ==
    LET keys == [i \in 1..Len(t) |-> Key(t[i])]
        p == StableOrder(keys, 1..Len(t))
    IN  [i \in 1..Len(t) |-> t[p[i]]]

\* DataFrame.nlargest(n, column) with keep="first".  n <= 0 selects nothing.
\* With n >= len the whole column is sorted with sort_values (descending) and
\* cut to n rows; otherwise the rows with a NaN key are set aside, the n
\* largest of the rest are taken in descending order, equal keys in table
\* order, and the NaN rows fill up what is missing.
nlargest(t, n, Key(_)) ==
    IF n <= 0 THEN {<<>>}
    ELSE IF n >= Len(t) THEN {HeadN(s, n) : s \in sort_values(t, Key, FALSE)}
    ELSE LET dropped == SelectSeq(t, LAMBDA r : ~IsNaN(Key(r)))
             nan_index == SelectSeq(t, LAMBDA r : IsNaN(Key(r)))
         IN  {HeadN(HeadN(StableDesc(dropped, Key), n) \o nan_index, n)}

\* DataFrame.nsmallest(n, column), keep="first": nlargest with the order turned
nsmallest(t, n, Key(_)) ==
    IF n <= 0 THEN {<<>>}
    ELSE IF n >= Len(t) THEN {HeadN(s, n) : s \in sort_values(t, Key, TRUE)}
    ELSE LET dropped == SelectSeq(t, LAMBDA r : ~IsNaN(Key(r)))
             nan_index == SelectSeq(t, LAMBDA r : IsNaN(Key(r)))
         IN  {HeadN(HeadN(StableDesc(dropped, LAMBDA r : FNeg(Key(r))), n) \o nan_index, n)}

\* the order in which groupby lists its group keys (sorted, as strings)
AssetTypeOrder == <<"Liquid", "RealEstate", "Shares">>
RegionOrder == <<"Europe", "NorthAmerica">>
SectorOrder == <<"Healthcare", "Technology">>

\* groupby(col)["valuation_current"].sum().reset_index(): one row per key
\* that occurs, keys in sorted order; rows whose key is missing (NaN) belong
\* to no group (groupby's dropna=True default)
groupby_sum(t, col, order) ==
    LET keys == SelectSeq(order, LAMBDA k : \E i \in 1..Len(t) : t[i][col] = k)
    IN  [i \in 1..Len(keys) |->
            [key |-> keys[i],
             value |-> SumCol(FilterEq(t, col, keys[i]), "valuation_current")]]

----------------------------------------------------------------------------
(* Valuation and P&L *)

calculate_total_value(h) ==
    IF Empty(h) THEN Zero ELSE Fl(SumCol(h, "valuation_current"))

calculate_cost_basis(h) ==
    IF Empty(h) THEN Zero ELSE Fl(SumCol(h, "valuation_cost_basis"))

\* mutant: the guards on an empty table and on a zero cost basis are missing
calculate_unrealized_pnl_unguarded(h) ==
    LET current == SumCol(h, "valuation_current")
        cost == SumCol(h, "valuation_cost_basis")
        pnl_abs == current - cost
    IN  [pnl_abs |-> Fl(pnl_abs),
         pnl_pct |-> FMul(FDiv(Fl(pnl_abs), Fl(cost)), Fl(100))]

calculate_unrealized_pnl(h) ==
    IF Empty(h) THEN [pnl_abs |-> Zero, pnl_pct |-> Zero]
    ELSE LET current == SumCol(h, "valuation_current")
             cost == SumCol(h, "valuation_cost_basis")
             pnl_abs == current - cost
         IN  [pnl_abs |-> Fl(pnl_abs),
              pnl_pct |-> IF cost > 0
                          THEN FMul(FDiv(Fl(pnl_abs), Fl(cost)), Fl(100))
                          ELSE Zero]

----------------------------------------------------------------------------
(* Returns, volatility and drawdown of the NAV series *)

DateOf(r) == Fl(r.date)

ZeroReturns ==
    [return_pct |-> Zero, return_abs |-> Zero, start_value |-> Zero, end_value |-> Zero]

\* (end_value / start_value - 1) * 100 if start_value > 0 else 0.0
return_pct_of(end_value, start_value) ==
    IF start_value > 0
    THEN FMul(FSub(FDiv(Fl(end_value), Fl(start_value)), Fl(1)), Fl(100))
    ELSE Zero

\* mutant: the window is open at its start (date > start_date)
calculate_returns_from_nav_open_window(n, period_days) ==
    IF Empty(n) \/ Len(n) < MinReturnPoints THEN {ZeroReturns}
    ELSE {LET end_value == nav_sorted[Len(nav_sorted)].value
              end_date == nav_sorted[Len(nav_sorted)].date
              start_date == end_date - period_days
              in_period == SelectSeq(nav_sorted, LAMBDA r : r.date > start_date)
              nav_period == IF Empty(in_period) THEN nav_sorted ELSE in_period
              start_value == nav_period[1].value
          IN  [return_pct |-> return_pct_of(end_value, start_value),
               return_abs |-> Fl(end_value - start_value),
               start_value |-> Fl(start_value),
               end_value |-> Fl(end_value)] :
          nav_sorted \in sort_values(n, DateOf, TRUE)}

calculate_returns_from_nav(n, period_days) ==
    IF Empty(n) \/ Len(n) < MinReturnPoints THEN {ZeroReturns}
    ELSE {LET end_value == nav_sorted[Len(nav_sorted)].value
              end_date == nav_sorted[Len(nav_sorted)].date
              start_date == end_date - period_days
              in_period == SelectSeq(nav_sorted, LAMBDA r : r.date >= start_date)
              nav_period == IF Empty(in_period) THEN nav_sorted ELSE in_period
              start_value == nav_period[1].value
          IN  [return_pct |-> return_pct_of(end_value, start_value),
               return_abs |-> Fl(end_value - start_value),
               start_value |-> Fl(start_value),
               end_value |-> Fl(end_value)] :
          nav_sorted \in sort_values(n, DateOf, TRUE)}

\* mutant: the return is taken from the first point of the whole series
calculate_ytd_return_whole_series(n) ==
    IF Empty(n) THEN {Zero}
    ELSE {LET end_value == nav_sorted[Len(nav_sorted)].value
          IN  IF Len(nav_sorted) < 2 THEN Zero
              ELSE return_pct_of(end_value, nav_sorted[1].value) :
          nav_sorted \in sort_values(n, DateOf, TRUE)}

calculate_ytd_return(n) ==
    IF Empty(n) THEN {Zero}
    ELSE {LET end_value == nav_sorted[Len(nav_sorted)].value
              end_date == nav_sorted[Len(nav_sorted)].date
              year_start == YearStart(Year(end_date))
              nav_ytd == SelectSeq(nav_sorted, LAMBDA r : r.date >= year_start)
          IN  IF Empty(nav_ytd) \/ Len(nav_ytd) < 2 THEN Zero
              ELSE return_pct_of(end_value, nav_ytd[1].value) :
          nav_sorted \in sort_values(n, DateOf, TRUE)}

RECURSIVE FSum(_)
FSum(xs) == IF Len(xs) = 0 THEN Zero ELSE FAdd(xs[1], FSum(Tail(xs)))

\* Series.pct_change().dropna(): value[i] / value[i-1] - 1 from the second
\* row on (the first row is NaN), without the NaN entries
pct_change_dropna(values) ==
    SelectSeq([i \in 1..(Len(values) - 1) |->
                  FSub(FDiv(Fl(values[i + 1]), Fl(values[i])), Fl(1))],
              LAMBDA x : ~IsNaN(x))

\* the square of Series.std() (ddof = 1): NaN for a single entry or when an
\* entry is infinite
variance(xs) ==
    IF Len(xs) < 2 \/ \E i \in 1..Len(xs) : ~IsFinite(xs[i]) THEN NaN
    ELSE LET mean == FDiv(FSum(xs), Fl(Len(xs)))
             sq == [i \in 1..Len(xs) |-> FMul(FSub(xs[i], mean), FSub(xs[i], mean))]
         IN  FDiv(FSum(sq), Fl(Len(xs) - 1))

\* mutant: two points are taken to be enough
calculate_volatility_two_points(n, annualized) ==
    IF Empty(n) \/ Len(n) < MinReturnPoints
    THEN {[variance |-> Zero, annualized |-> annualized]}
    ELSE {LET returns == pct_change_dropna([i \in 1..Len(nav_sorted) |-> nav_sorted[i].value])
          IN  IF Empty(returns) THEN [variance |-> Zero, annualized |-> annualized]
              ELSE [variance |-> variance(returns), annualized |-> annualized] :
          nav_sorted \in sort_values(n, DateOf, TRUE)}

\* The volatility is returned as the variance it is the root of:
\* calculate_volatility = sqrt(variance) * (sqrt(52) if annualized) * 100.
\* The early returns of 0.0 are variance 0.
calculate_volatility(n, annualized) ==
    IF Empty(n) \/ Len(n) < MinVolatilityPoints THEN {[variance |-> Zero, annualized |-> annualized]}
    ELSE {LET returns == pct_change_dropna([i \in 1..Len(nav_sorted) |-> nav_sorted[i].value])
          IN  IF Empty(returns) THEN [variance |-> Zero, annualized |-> annualized]
              ELSE [variance |-> variance(returns), annualized |-> annualized] :
          nav_sorted \in sort_values(n, DateOf, TRUE)}

Max(a, b) == IF a >= b THEN a ELSE b

\* np.maximum.accumulate
RECURSIVE running_max_at(_, _)
running_max_at(values, i) ==
    IF i = 1 THEN values[1] ELSE Max(running_max_at(values, i - 1), values[i])

\* np.argmin: the first index of the smallest entry; a NaN entry counts as
\* the smallest
argmin(xs) ==
    IF \E i \in 1..Len(xs) : IsNaN(xs[i])
    THEN CHOOSE i \in 1..Len(xs) : IsNaN(xs[i]) /\ \A j \in 1..(i - 1) : ~IsNaN(xs[j])
    ELSE CHOOSE i \in 1..Len(xs) :
             /\ \A j \in 1..Len(xs) : FLe(xs[i], xs[j])
             /\ \A j \in 1..(i - 1) : FLt(xs[i], xs[j])

\* np.argmax on integers: the first index of the largest entry
argmax(values) ==
    CHOOSE i \in 1..Len(values) :
        /\ \A j \in 1..Len(values) : values[i] >= values[j]
        /\ \A j \in 1..(i - 1) : values[i] > values[j]

\* a date of the result: <<>> is None, <<d>> the Timestamp of day d
NoDate == <<>>

calculate_max_drawdown(n) ==
    IF Empty(n) \/ Len(n) < MinReturnPoints
    THEN {[max_drawdown_pct |-> Zero, peak_value |-> Zero, trough_value |-> Zero,
           peak_date |-> NoDate, trough_date |-> NoDate]}
    ELSE {LET values == [i \in 1..Len(nav_sorted) |-> nav_sorted[i].value]
              dates == [i \in 1..Len(nav_sorted) |-> nav_sorted[i].date]
              drawdowns == [i \in 1..Len(values) |->
                               FDiv(Fl(values[i] - running_max_at(values, i)),
                                    Fl(running_max_at(values, i)))]
              max_dd_idx == argmin(drawdowns)
              max_drawdown == drawdowns[max_dd_idx]
              peak_idx == IF max_dd_idx > 1 THEN argmax(SubSeq(values, 1, max_dd_idx)) ELSE 1
          IN  [max_drawdown_pct |-> FMul(max_drawdown, Fl(100)),
               peak_value |-> Fl(values[peak_idx]),
               trough_value |-> Fl(values[max_dd_idx]),
               peak_date |-> <<dates[peak_idx]>>,
               trough_date |-> <<dates[max_dd_idx]>>] :
          nav_sorted \in sort_values(n, DateOf, TRUE)}

\* the drawdown of every point of the date-sorted series, in percent
calculate_drawdown_series(n) ==
    IF Empty(n) \/ Len(n) < MinReturnPoints THEN {<<>>}
    ELSE {LET values == [i \in 1..Len(nav_sorted) |-> nav_sorted[i].value]
          IN  [i \in 1..Len(nav_sorted) |->
                  [date |-> nav_sorted[i].date,
                   drawdown_pct |->
                       FMul(FDiv(Fl(values[i] - running_max_at(values, i)),
                                 Fl(running_max_at(values, i))), Fl(100))]] :
          nav_sorted \in sort_values(n, DateOf, TRUE)}

\* the months of the sorted series in order, each once
RECURSIVE MonthsOf(_)
MonthsOf(s) ==
    IF Len(s) = 0 THEN <<>>
    ELSE LET rest == MonthsOf(Tail(s))
         IN  IF Len(rest) > 0 /\ rest[1] = to_period_M(s[1].date)
             THEN rest ELSE <<to_period_M(s[1].date)>> \o rest

\* per month the return from its first to its last value; the division is
\* pandas', so a first value of 0 gives inf or NaN
calculate_monthly_returns(n) ==
    IF Empty(n) \/ Len(n) < MinReturnPoints THEN {<<>>}
    ELSE {LET months == MonthsOf(nav_sorted)
          IN  [k \in 1..Len(months) |->
                  LET rows == SelectSeq(nav_sorted,
                                        LAMBDA r : to_period_M(r.date) = months[k])
                  IN  [month |-> months[k],
                       return_pct |->
                           FMul(FSub(FDiv(Fl(rows[Len(rows)].value), Fl(rows[1].value)),
                                     Fl(1)), Fl(100))]] :
          nav_sorted \in sort_values(n, DateOf, TRUE)}

\* the positions 1, 1 + step, 1 + 2 step, ... of a table of length len
EveryNth(len, step) == {i \in 1..len : (i - 1) % step = 0}

PositionsSeq(t, pos) == SelectSeq([i \in 1..Len(t) |-> [i |-> i, row |-> t[i]]],
                                  LAMBDA x : x.i \in pos)

\* downsample_nav: a ZeroDivisionError when max_points is 0 on a non-empty
\* series; max_points is >= 0 here
downsample_nav(n, max_points) ==
    IF Empty(n) \/ Len(n) <= max_points THEN n
    ELSE IF max_points = 0 THEN [exc |-> "ZeroDivisionError"]
    ELSE LET step == Len(n) \div max_points
             kept == EveryNth(Len(n), step) \cup {Len(n)}
             picked == PositionsSeq(n, kept)
         IN  [i \in 1..Len(picked) |-> picked[i].row]

----------------------------------------------------------------------------
(* Cashflow and income of the transactions *)

\* the months that occur, ascending (the groups of groupby("month"))
RECURSIVE AscendingSeq(_)
AscendingSeq(S) ==
    IF S = {} THEN <<>>
    ELSE LET m == CHOOSE x \in S : \A y \in S : x <= y
         IN  <<m>> \o AscendingSeq(S \ {m})

\* mutant: the outflows keep their sign
calculate_cashflow_summary_signed(tx) ==
    IF Empty(tx) THEN <<>>
    ELSE LET withFlows == [i \in 1..Len(tx) |->
                 [month |-> to_period_M(tx[i].date),
                  inflow |-> IF tx[i].amount > 0 THEN tx[i].amount ELSE 0,
                  outflow |-> IF tx[i].amount < 0 THEN tx[i].amount ELSE 0]]
             months == AscendingSeq({withFlows[i].month : i \in 1..Len(tx)})
         IN  [k \in 1..Len(months) |->
                 LET rows == FilterEq(withFlows, "month", months[k])
                 IN  [month |-> months[k],
                      inflows |-> SumCol(rows, "inflow"),
                      outflows |-> SumCol(rows, "outflow"),
                      net |-> SumCol(rows, "inflow") - SumCol(rows, "outflow")]]

calculate_cashflow_summary(tx) ==
    IF Empty(tx) THEN <<>>
    ELSE LET withFlows == [i \in 1..Len(tx) |->
                 [month |-> to_period_M(tx[i].date),
                  inflow |-> IF tx[i].amount > 0 THEN tx[i].amount ELSE 0,
                  outflow |-> IF tx[i].amount < 0 THEN Abs(tx[i].amount) ELSE 0]]
             months == AscendingSeq({withFlows[i].month : i \in 1..Len(tx)})
         IN  [k \in 1..Len(months) |->
                 LET rows == FilterEq(withFlows, "month", months[k])
                 IN  [month |-> months[k],
                      inflows |-> SumCol(rows, "inflow"),
                      outflows |-> SumCol(rows, "outflow"),
                      net |-> SumCol(rows, "inflow") - SumCol(rows, "outflow")]]

\* mutant: fees are counted with the interest
calculate_income_summary_with_fees(tx) ==
    IF Empty(tx) THEN [dividends |-> 0, rent |-> 0, interest |-> 0, total |-> 0]
    ELSE LET dividends == SumCol(FilterEq(tx, "type", "dividend"), "amount")
             rent == SumCol(FilterEq(tx, "type", "rent"), "amount")
             interest == SumCol(FilterEq(tx, "type", "interest"), "amount")
                         + SumCol(FilterEq(tx, "type", "fee"), "amount")
         IN  [dividends |-> dividends, rent |-> rent, interest |-> interest,
              total |-> dividends + rent + interest]

calculate_income_summary(tx) ==
    IF Empty(tx) THEN [dividends |-> 0, rent |-> 0, interest |-> 0, total |-> 0]
    ELSE LET dividends == SumCol(FilterEq(tx, "type", "dividend"), "amount")
             rent == SumCol(FilterEq(tx, "type", "rent"), "amount")
             interest == SumCol(FilterEq(tx, "type", "interest"), "amount")
         IN  [dividends |-> dividends, rent |-> rent, interest |-> interest,
              total |-> dividends + rent + interest]

----------------------------------------------------------------------------
(* Allocation breakdowns *)

\* mutant: the percentages are taken of the total of the rows passed in, not
\* of the total of the groups
allocation_by_table_total(t, col, order) ==
    LET allocation == groupby_sum(t, col, order)
        total == SumCol(t, "valuation_current")
        withPct == [i \in 1..Len(allocation) |->
                      [key |-> allocation[i].key,
                       value |-> allocation[i].value,
                       percentage |->
                           IF total > 0
                           THEN FMul(FDiv(Fl(allocation[i].value), Fl(total)), Fl(100))
                           ELSE Zero]]
    IN  sort_values(withPct, LAMBDA r : Fl(r.value), FALSE)

\* the body shared by the three allocation functions: group, total,
\* percentage column, sort by value descending
allocation_by(t, col, order) ==
    LET allocation == groupby_sum(t, col, order)
        total == SumCol(allocation, "value")
        withPct == [i \in 1..Len(allocation) |->
                      [key |-> allocation[i].key,
                       value |-> allocation[i].value,
                       percentage |->
                           IF total > 0
                           THEN FMul(FDiv(Fl(allocation[i].value), Fl(total)), Fl(100))
                           ELSE Zero]]
    IN  sort_values(withPct, LAMBDA r : Fl(r.value), FALSE)

calculate_asset_allocation(h) ==
    IF Empty(h) THEN {<<>>} ELSE allocation_by(h, "asset_type", AssetTypeOrder)

calculate_region_allocation(h) ==
    IF Empty(h) THEN {<<>>} ELSE allocation_by(h, "region", RegionOrder)

calculate_sector_allocation(h) ==
    LET shares == FilterEq(h, "asset_type", "Shares")
    IN  IF Empty(shares) THEN {<<>>} ELSE allocation_by(shares, "sector", SectorOrder)

----------------------------------------------------------------------------
(* Top holdings, concentration, liquidity, cash *)

\* (valuation_current / valuation_cost_basis - 1) * 100 on a column: the
\* division is numpy's, so a zero cost basis gives inf or NaN
pnl_pct_of(r) ==
    FMul(FSub(FDiv(Fl(r.valuation_current), Fl(r.valuation_cost_basis)), Fl(1)), Fl(100))

CurrentValue(r) == Fl(r.valuation_current)

get_top_holdings(h, n) ==
    IF Empty(h) THEN {<<>>}
    ELSE {[i \in 1..Len(top) |->
             [asset_name |-> top[i].asset_name,
              asset_type |-> top[i].asset_type,
              region |-> top[i].region,
              valuation_current |-> top[i].valuation_current,
              valuation_cost_basis |-> top[i].valuation_cost_basis,
              unrealized_pnl |->
                  Fl(top[i].valuation_current - top[i].valuation_cost_basis),
              unrealized_pnl_pct |-> pnl_pct_of(top[i])]] :
          top \in nlargest(h, n, CurrentValue)}

\* mutant: one holding too few is selected
calculate_concentration_one_short(h, top_n) ==
    IF Empty(h) THEN {Zero}
    ELSE LET total == SumCol(h, "valuation_current")
         IN  {IF total > 0
              THEN FMul(FDiv(Fl(SumCol(top, "valuation_current")), Fl(total)), Fl(100))
              ELSE Zero : top \in nlargest(h, top_n - 1, CurrentValue)}

calculate_concentration(h, top_n) ==
    IF Empty(h) THEN {Zero}
    ELSE LET total == SumCol(h, "valuation_current")
         IN  {IF total > 0
              THEN FMul(FDiv(Fl(SumCol(top, "valuation_current")), Fl(total)), Fl(100))
              ELSE Zero : top \in nlargest(h, top_n, CurrentValue)}

\* mutant: a category outside the map weighs nothing
liquidity_map_unknown_zero(c) ==
    IF c = "Large" THEN 9 ELSE IF c = "Moderate" THEN 5 ELSE IF c = "Small" THEN 2 ELSE 0

\* liquidity_map, in tenths; a category outside the map is filled with 0.5
liquidity_map(c) ==
    IF c = "Large" THEN 9 ELSE IF c = "Moderate" THEN 5 ELSE IF c = "Small" THEN 2 ELSE 5

\* mutant: the numeric liquidity_score is tried before the categorical field
calculate_liquidity_score_numeric_first(h) ==
    IF Empty(h) THEN Zero
    ELSE LET total_value == SumCol(h, "valuation_current")
             hasCat == "liquidity" \in DOMAIN h[1] /\ h[1].liquidity.dtype = "object"
             hasNum == "liquidity_score" \in DOMAIN h[1]
             weights == [i \in 1..Len(h) |->
                            [w |-> IF hasNum
                                   THEN h[i].liquidity_score * h[i].valuation_current
                                   ELSE liquidity_map(h[i].liquidity.v) * h[i].valuation_current]]
         IN  IF total_value = 0 THEN Zero
             ELSE IF hasCat \/ hasNum
                  THEN FDiv(Norm(SumCol(weights, "w"), 10), Fl(total_value))
                  ELSE Norm(1, 2)

calculate_liquidity_score(h) ==
    IF Empty(h) THEN Zero
    ELSE LET total_value == SumCol(h, "valuation_current")
             hasCat == "liquidity" \in DOMAIN h[1] /\ h[1].liquidity.dtype = "object"
             hasNum == "liquidity_score" \in DOMAIN h[1]
             weights == [i \in 1..Len(h) |->
                            [w |-> IF hasCat
                                   THEN liquidity_map(h[i].liquidity.v) * h[i].valuation_current
                                   ELSE h[i].liquidity_score * h[i].valuation_current]]
         IN  IF total_value = 0 THEN Zero
             ELSE IF hasCat \/ hasNum
                  THEN FDiv(Norm(SumCol(weights, "w"), 10), Fl(total_value))
                  ELSE Norm(1, 2)

\* mutant: the share of what is not Liquid
calculate_cash_percentage_illiquid(h) ==
    IF Empty(h) THEN Zero
    ELSE LET total == SumCol(h, "valuation_current")
             liquid == SumCol(FilterEq(h, "asset_type", "Liquid"), "valuation_current")
         IN  IF total > 0 THEN FMul(FDiv(Fl(total - liquid), Fl(total)), Fl(100)) ELSE Zero

calculate_cash_percentage(h) ==
    IF Empty(h) THEN Zero
    ELSE LET total == SumCol(h, "valuation_current")
             liquid == SumCol(FilterEq(h, "asset_type", "Liquid"), "valuation_current")
         IN  IF total > 0 THEN FMul(FDiv(Fl(liquid), Fl(total)), Fl(100)) ELSE Zero

----------------------------------------------------------------------------
(* Insight generation.  An insight is its title and the data its text is    *)
(* formatted from: the asset it names, the number it quotes, the drifts it  *)
(* lists.  The wording and the rounding of the text are not modelled.       *)

Insight(title, subject, value, drifts) ==
    [title |-> title, subject |-> subject, value |-> value, drifts |-> drifts]

FAbs(x) == [n |-> Abs(x.n), d |-> x.d]

\* client profiles: target_allocation as the list of its (class, fraction)
\* items in the order of the profile; the first profile has none
Target(t, tenths) == [asset_type |-> t, target_pct |-> Norm(tenths, 10)]

Clients ==
    {[target_allocation |-> <<>>],
     [target_allocation |-> <<Target("Shares", 6), Target("RealEstate", 3), Target("Liquid", 1)>>],
     [target_allocation |-> <<Target("Shares", 3), Target("Liquid", 7)>>]}

\* allocation_dict.get(asset_type, 0)
DictGet(allocation, k) ==
    IF \E i \in 1..Len(allocation) : allocation[i].key = k
    THEN allocation[CHOOSE i \in 1..Len(allocation) : allocation[i].key = k].percentage
    ELSE Zero

\* mutant: a drift of exactly 5 points is reported too
drifts_of_from_five(allocation, target_allocation) ==
    LET all == [i \in 1..Len(target_allocation) |->
                   LET drift == FSub(DictGet(allocation, target_allocation[i].asset_type),
                                     FMul(target_allocation[i].target_pct, Fl(100)))
                   IN  [asset_type |-> target_allocation[i].asset_type,
                        drift |-> drift,
                        direction |-> IF FGt(drift, Zero) THEN "overweight" ELSE "underweight"]]
    IN  SelectSeq(all, LAMBDA x : FLe(Fl(5), FAbs(x.drift)))

\* the drifts list built by the loop over target_allocation.items()
drifts_of(allocation, target_allocation) ==
    LET all == [i \in 1..Len(target_allocation) |->
                   LET drift == FSub(DictGet(allocation, target_allocation[i].asset_type),
                                     FMul(target_allocation[i].target_pct, Fl(100)))
                   IN  [asset_type |-> target_allocation[i].asset_type,
                        drift |-> drift,
                        direction |-> IF FGt(drift, Zero) THEN "overweight" ELSE "underweight"]]
    IN  SelectSeq(all, LAMBDA x : FGt(FAbs(x.drift), Fl(5)))

WithPnlPct(h) == [i \in 1..Len(h) |-> [pnl_pct |-> pnl_pct_of(h[i])] @@ h[i]]

PnlPct(r) == r.pnl_pct

\* mutant: a worst performer that broke even is reported too
underperformer_of_not_positive(worst_performer) ==
    IF FLe(worst_performer.pnl_pct, Zero)
    THEN <<Insight("Underperformer", worst_performer.asset_name,
                   FAbs(worst_performer.pnl_pct), <<>>)>>
    ELSE <<>>

\* the Underperformer entry, if the worst performer lost value
underperformer_of(worst_performer) ==
    IF FLt(worst_performer.pnl_pct, Zero)
    THEN <<Insight("Underperformer", worst_performer.asset_name,
                   FAbs(worst_performer.pnl_pct), <<>>)>>
    ELSE <<>>

\* mutant: the bands start above their thresholds
liquidity_text_above(avg_liquidity) ==
    IF FLt(Norm(7, 10), avg_liquidity) THEN "highly liquid"
    ELSE IF FLt(Norm(4, 10), avg_liquidity) THEN "moderately liquid"
    ELSE "less liquid with longer exit horizons"

liquidity_text_of(avg_liquidity) ==
    IF FLe(Norm(7, 10), avg_liquidity) THEN "highly liquid"
    ELSE IF FLe(Norm(4, 10), avg_liquidity) THEN "moderately liquid"
    ELSE "less liquid with longer exit horizons"

\* mutant: the alert is raised whatever the concentration
concentration_alert_always(concentration) ==
    IF FLe(Zero, concentration)
    THEN <<Insight("Concentration Alert", "", concentration, <<>>)>>
    ELSE <<>>

\* the Concentration Alert entry, if the top 3 hold more than 30 percent
concentration_alert(concentration) ==
    IF FGt(concentration, Fl(30))
    THEN <<Insight("Concentration Alert", "", concentration, <<>>)>>
    ELSE <<>>

\* mutant: the liquidity profile is appended first
insights_liquidity_first(largest, best, under, alloc, liquidity, alert) ==
    liquidity \o largest \o best \o under \o alloc \o alert

\* the list as the appends build it
insights_in_order(largest, best, under, alloc, liquidity, alert) ==
    largest \o best \o under \o alloc \o liquidity \o alert

\* the insights of a table that has a row
rule_insights(h, client) ==
    LET total == SumCol(h, "valuation_current")
        holdings_pnl == WithPnlPct(h)
        target_allocation == client.target_allocation
        avg_liquidity == calculate_liquidity_score(h)
        liquidity_text == liquidity_text_of(avg_liquidity)
    IN  {LET biggest == big[1]
             biggest_pct ==
                 IF total > 0
                 THEN FMul(FDiv(Fl(biggest.valuation_current), Fl(total)), Fl(100))
                 ELSE Zero
             best_performer == best[1]
             worst_performer == worst[1]
             drifts == drifts_of(allocation, target_allocation)
         IN  insights_in_order(
                 <<Insight("Largest Position", biggest.asset_name, biggest_pct, <<>>)>>,
                 <<Insight("Best Performer", best_performer.asset_name,
                           best_performer.pnl_pct, <<>>)>>,
                 underperformer_of(worst_performer),
                 IF Len(target_allocation) > 0
                 THEN IF Len(drifts) > 0
                      THEN <<Insight("Allocation Drift", "", Zero, drifts)>>
                      ELSE <<Insight("Allocation Status", "", Zero, <<>>)>>
                 ELSE <<>>,
                 <<Insight("Liquidity Profile", liquidity_text, avg_liquidity, <<>>)>>,
                 concentration_alert(concentration)) :
         big \in nlargest(h, 1, CurrentValue),
         best \in nlargest(holdings_pnl, 1, PnlPct),
         worst \in nsmallest(holdings_pnl, 1, PnlPct),
         allocation \in calculate_asset_allocation(h),
         concentration \in calculate_concentration(h, 3)}

\* mutant: an empty table gives an empty list
generate_insights_silent(h, client) ==
    IF Empty(h) THEN {<<>>} ELSE rule_insights(h, client)

generate_insights(h, client) ==
    IF Empty(h) THEN {<<Insight("No Data", "", Zero, <<>>)>>}
    ELSE rule_insights(h, client)

----------------------------------------------------------------------------
(* Filters (src/app/services/filters.py) *)

\* the truth value of an optional string: None and "" are false
Truthy(x) == x # None /\ x # ""

\* mutant: the end of the range is exclusive
filter_dates_before_end(df, col, date_range) ==
    IF date_range = <<>> THEN df
    ELSE LET start_date == date_range[1]
             end_date == date_range[2]
             from_start == IF start_date # <<>>
                           THEN SelectSeq(df, LAMBDA r : r[col] >= start_date[1])
                           ELSE df
         IN  IF end_date # <<>>
             THEN SelectSeq(from_start, LAMBDA r : r[col] < end_date[1])
             ELSE from_start

\* df[df[col] >= start] and df[df[col] <= end] for the bounds of date_range
\* that are supplied; a date is always true
filter_dates(df, col, date_range) ==
    IF date_range = <<>> THEN df
    ELSE LET start_date == date_range[1]
             end_date == date_range[2]
             from_start == IF start_date # <<>>
                           THEN SelectSeq(df, LAMBDA r : r[col] >= start_date[1])
                           ELSE df
         IN  IF end_date # <<>>
             THEN SelectSeq(from_start, LAMBDA r : r[col] <= end_date[1])
             ELSE from_start

filter_holdings(h, account_id, asset_type, date_range) ==
    LET by_account == IF Truthy(account_id) /\ account_id # "all"
                      THEN FilterEq(h, "account_id", account_id)
                      ELSE h
        by_type == IF Truthy(asset_type) /\ asset_type # "all"
                   THEN FilterEq(by_account, "asset_type", asset_type)
                   ELSE by_account
    IN  filter_dates(by_type, "last_valuation_date", date_range)

filter_transactions(tx, account_id, tx_type, date_range) ==
    LET by_account == IF Truthy(account_id) /\ account_id # "all"
                      THEN FilterEq(tx, "account_id", account_id)
                      ELSE tx
        by_type == IF Truthy(tx_type) /\ tx_type # "all"
                   THEN FilterEq(by_account, "type", tx_type)
                   ELSE by_account
    IN  filter_dates(by_type, "date", date_range)

\* the accounts that have a column value_<account_id> in the NAV table
NavAccountColumns == {"ACC-1"}

\* filter_nav: the date filter, then the value column of the account if the
\* table has one, else total_value; the result has the columns date, value
filter_nav(n, account_id, date_range) ==
    LET df == filter_dates(n, "date", date_range)
        value(r) == IF Truthy(account_id) /\ account_id # "all"
                       /\ account_id \in NavAccountColumns
                    THEN r.value_ACC1
                    ELSE r.total_value
    IN  [i \in 1..Len(df) |-> [date |-> df[i].date, value |-> value(df[i])]]

----------------------------------------------------------------------------
(* Fixture loaders (src/app/services/data_loader.py).  Every loader is a    *)
(* function without arguments under lru_cache(maxsize=1); calls are made    *)
(* one after the other.                                                     *)

Loaders ==
    {"load_client", "load_accounts", "load_holdings", "load_transactions",
     "load_nav", "load_ownership", "load_real_estate_locations"}

\* client.json, accounts.csv and real_estate_locations.json
ClientProfile ==
    [name |-> "Client",
     target_allocation |-> <<Target("Shares", 6), Target("RealEstate", 3), Target("Liquid", 1)>>]
AccountsTable == <<[account_id |-> "ACC-1", account_name |-> "Main"],
                   [account_id |-> "ACC-2", account_name |-> "Second"]>>
LocationsList == <<[name |-> "A", lat |-> 47, lon |-> 19]>>

\* whether a loader finds its file: ownership.json and
\* real_estate_locations.json are optional, the other fixtures are there
FileExists(l) == l = "load_ownership" => ownership.exists

\* what a loader returns when it runs: the content of its file, or the
\* default of an optional file that is missing
FileContent(l) ==
    CASE l = "load_client" -> ClientProfile
      [] l = "load_accounts" -> AccountsTable
      [] l = "load_holdings" -> holdings
      [] l = "load_transactions" -> transactions
      [] l = "load_nav" -> nav
      [] l = "load_ownership" -> [companies |-> ownership.companies]
      [] l = "load_real_estate_locations" -> LocationsList

\* before any loader was called, and after reload_data
NoCache == [l \in Loaders |-> <<>>]
NoReads == [l \in Loaders |-> 0]
ColdStart == cache = NoCache /\ reads = NoReads

\* mutant: no memo, every call runs the loader
Hit_never(c, l) == FALSE

\* whether the memo of loader l holds its result
Hit(c, l) == c[l] # <<>>

\* the result of a call of loader l when the memo is c
Loaded(c, l) == IF Hit(c, l) THEN c[l][1] ELSE FileContent(l)

\* the memo and the number of reads after the loaders of called ran
CacheAfter(c, called) ==
    [l \in Loaders |-> IF l \in called /\ ~Hit(c, l) THEN <<FileContent(l)>> ELSE c[l]]
ReadsAfter(c, r, called) ==
    [l \in Loaders |-> IF l \in called /\ ~Hit(c, l) /\ FileExists(l) THEN r[l] + 1 ELSE r[l]]

\* reload_data: cache_clear() on every loader
reload_data == NoCache

----------------------------------------------------------------------------
(* The two front-ends (src/app/app.py, src/streamlit_app.py).  The output   *)
(* of a request is the data it is rendered from: the filtered and converted *)
(* tables, the currency symbol and the numbers of the tab; charts, layout   *)
(* and wording are not modelled, nor are the assets, map and diversity tabs.*)

conversion_rates == [EUR |-> Fl(1), USD |-> Norm(109, 100), HUF |-> Fl(395)]
currency_symbols == [EUR |-> "€", USD |-> "$", HUF |-> "Ft "]

\* conversion_rates.get(currency, 1.0) and currency_symbols.get(currency, "€")
conversion_rate(currency) ==
    IF currency \in DOMAIN conversion_rates THEN conversion_rates[currency] ELSE Fl(1)
currency_symbol(currency) ==
    IF currency \in DOMAIN currency_symbols THEN currency_symbols[currency] ELSE "€"

\* mutant: a fee of one unit on every converted amount
Times_fee(v, rate) == (v * rate.n) \div rate.d + 1

\* an amount times a rate
Times(v, rate) == (v * rate.n) \div rate.d

\* a data frame in the hands of a handler: its rows, and whether it is the
\* very object a loader's memo holds, so that a write to it changes the
\* cached table
Frame(rows, cached) == [rows |-> rows, cached |-> cached]

\* mutant: the same object instead of a copy
copy_none(f) == f

\* DataFrame.copy(): a new object with the same rows
copy(f) == Frame(f.rows, FALSE)

\* whether a filter selects rows (df = df[...], a new object) at least once
Selects(account_id, type, date_range) ==
    \/ Truthy(account_id) /\ account_id # "all"
    \/ Truthy(type) /\ type # "all"
    \/ date_range # <<>> /\ (date_range[1] # <<>> \/ date_range[2] # <<>>)

\* filter_holdings and filter_transactions on a frame: df = holdings.copy(),
\* then the selections
filter_holdings_frame(f, account_id, asset_type, date_range) ==
    LET df == copy(f)
    IN  Frame(filter_holdings(df.rows, account_id, asset_type, date_range),
              df.cached /\ ~Selects(account_id, asset_type, date_range))

filter_transactions_frame(f, account_id, tx_type, date_range) ==
    LET df == copy(f)
    IN  Frame(filter_transactions(df.rows, account_id, tx_type, date_range),
              df.cached /\ ~Selects(account_id, tx_type, date_range))

\* filter_nav on a frame: df = nav.copy(), the selections, the column value
\* written into df, and df[["date", "value"]].copy() returned.  The result,
\* and the rows of the frame passed in after the call.
filter_nav_frame(f, account_id, date_range) ==
    LET df == copy(f)
        selected == Frame(filter_dates(df.rows, "date", date_range),
                          df.cached /\ ~Selects(None, None, date_range))
        value(r) == IF Truthy(account_id) /\ account_id # "all"
                       /\ account_id \in NavAccountColumns
                    THEN r.value_ACC1
                    ELSE r.total_value
        written == [i \in 1..Len(selected.rows) |->
                       [date |-> selected.rows[i].date,
                        total_value |-> selected.rows[i].total_value,
                        value |-> value(selected.rows[i])]]
    IN  [frame |-> Frame(filter_nav(selected.rows, account_id, <<>>), FALSE),
         passed_in |-> IF selected.cached THEN written ELSE f.rows]

\* mutant: the product is written through to the table the frame was
\* taken from
multiply_through(f, columns, rate) ==
    [rows |-> [i \in 1..Len(f.rows) |->
                 [c \in DOMAIN f.rows[i] |->
                     IF c \in columns THEN (f.rows[i][c] * rate.n) \div rate.d
                     ELSE f.rows[i][c]]],
     cached |-> TRUE]

\* frame[columns] = frame[columns] * rate, written into the frame
multiply(f, columns, rate) ==
    [f EXCEPT !.rows = [i \in 1..Len(f.rows) |->
        [c \in DOMAIN f.rows[i] |->
            IF c \in columns THEN Times(f.rows[i][c], rate) ELSE f.rows[i][c]]]]

\* the filtered tables of a request in the display currency
\* (app.py:264-290, streamlit_app.py:203-226), and the loaded tables after it
request_tables(c, date_range, currency, asset_type) ==
    LET loaded_holdings == Frame(Loaded(c, "load_holdings"), TRUE)
        loaded_transactions == Frame(Loaded(c, "load_transactions"), TRUE)
        loaded_nav == Frame(Loaded(c, "load_nav"), TRUE)
        filtered_holdings == filter_holdings_frame(loaded_holdings, None, asset_type, date_range)
        filtered_transactions == filter_transactions_frame(loaded_transactions, None, None, date_range)
        nav_call == filter_nav_frame(loaded_nav, None, date_range)
        filtered_nav == nav_call.frame
        rate == conversion_rate(currency)
        converted_holdings ==
            IF currency # "EUR"
            THEN multiply(copy(filtered_holdings),
                          {"valuation_current", "valuation_cost_basis"}, rate)
            ELSE filtered_holdings
        converted_nav ==
            IF currency # "EUR"
            THEN multiply(copy(filtered_nav), {"value"}, rate)
            ELSE filtered_nav
    IN  [filtered_holdings |-> converted_holdings.rows,
         filtered_nav |-> converted_nav.rows,
         currency_symbol |-> currency_symbol(currency),
         load_holdings |-> IF converted_holdings.cached THEN converted_holdings.rows
                           ELSE loaded_holdings.rows,
         load_nav |-> IF converted_nav.cached THEN converted_nav.rows
                      ELSE nav_call.passed_in]

\* the outcome a set-valued function has in this build: the order of equal
\* keys after an unstable sort is not specified, but it is the same every
\* time the same table is sorted
AsBuilt(outcomes) == CHOOSE x \in outcomes : TRUE

\* company.get("ownership_percentage", 0)
ownership_pct(company) ==
    IF "ownership_percentage" \in DOMAIN company THEN company.ownership_percentage
    ELSE Zero

\* mutant: 25 to 49 is significant, anything else below 50 minority
tier_whole_percent(p) ==
    IF FLe(Fl(50), p) THEN "controlled"
    ELSE IF FLe(Fl(25), p) /\ FLe(p, Fl(49)) THEN "significant"
    ELSE "minority"

\* the branches `if pct >= 50 / elif pct >= 25 / else`
tier(p) ==
    IF FLe(Fl(50), p) THEN "controlled"
    ELSE IF FLe(Fl(25), p) THEN "significant"
    ELSE "minority"

node_color(p) ==
    CASE tier(p) = "controlled" -> "#38a169"
      [] tier(p) = "significant" -> "#d69e2e"
      [] OTHER -> "#3182ce"

link_color(p) ==
    CASE tier(p) = "controlled" -> "rgba(56, 161, 105, 0.5)"
      [] tier(p) = "significant" -> "rgba(214, 158, 46, 0.5)"
      [] OTHER -> "rgba(49, 130, 206, 0.5)"

\* render_ownership_tab of the Dash front-end: the colours of the company
\* nodes and links in file order, the bars sorted by percentage (sorted() is
\* stable) and the two counts
render_ownership_tab(ownership_data) ==
    LET companies == ownership_data.companies
        sorted_companies == StableDesc(companies, ownership_pct)
    IN  IF companies = <<>> THEN [empty_state |-> "no_data"]
        ELSE [empty_state |-> "",
              node_colors |-> [i \in 1..Len(companies) |-> node_color(ownership_pct(companies[i]))],
              link_colors |-> [i \in 1..Len(companies) |-> link_color(ownership_pct(companies[i]))],
              bars |-> [i \in 1..Len(companies) |->
                          [name |-> sorted_companies[i].name,
                           x |-> ownership_pct(sorted_companies[i]),
                           color |-> node_color(ownership_pct(sorted_companies[i]))]],
              controlled_count |-> Len(SelectSeq(companies,
                  LAMBDA c : tier(ownership_pct(c)) = "controlled")),
              minority_count |-> Len(SelectSeq(companies,
                  LAMBDA c : tier(ownership_pct(c)) = "minority"))]

\* the ownership tab of the Streamlit front-end: the counts by >= 50 and
\* < 25, the colours of nodes and links; it draws no bars
streamlit_ownership(ownership_data) ==
    LET companies == ownership_data.companies
    IN  IF companies = <<>> THEN [empty_state |-> "no_data"]
        ELSE [empty_state |-> "",
              node_colors |-> [i \in 1..Len(companies) |-> node_color(ownership_pct(companies[i]))],
              link_colors |-> [i \in 1..Len(companies) |-> link_color(ownership_pct(companies[i]))],
              controlled_count |-> Len(SelectSeq(companies,
                  LAMBDA c : FLe(Fl(50), ownership_pct(c)))),
              minority_count |-> Len(SelectSeq(companies,
                  LAMBDA c : FLt(ownership_pct(c), Fl(25))))]

render_summary_tab(h, n) ==
    IF Empty(h) THEN [empty_state |-> "no_assets"]
    ELSE [empty_state |-> "",
          total_value |-> calculate_total_value(h),
          pnl |-> calculate_unrealized_pnl(h),
          ytd_return |-> AsBuilt(calculate_ytd_return(n)),
          cash_pct |-> calculate_cash_percentage(h)]

render_insights_tab(h, client) ==
    IF Empty(h) THEN [empty_state |-> "no_insights"]
    ELSE [empty_state |-> "", insights |-> AsBuilt(generate_insights(h, client))]

\* render_reports_tab loads the NAV series again and takes all of it
render_reports_tab(h, loaded_nav) ==
    LET filtered_nav == filter_nav(loaded_nav, None, <<>>)
    IN  [empty_state |-> "",
         total_value |-> calculate_total_value(h),
         ytd_return |-> IF Empty(filtered_nav) THEN Zero
                        ELSE AsBuilt(calculate_ytd_return(filtered_nav))]

render_about_tab(client) == [empty_state |-> "", target |-> client.target_allocation]

\* the loaders a request for a tab calls
LoadersOfTab(c, active_tab, filtered_holdings) ==
    {"load_holdings", "load_transactions", "load_nav", "load_accounts"}
    \cup (IF active_tab = "ownership" THEN {"load_ownership"} ELSE {})
    \cup (IF active_tab = "ownership" /\ Loaded(c, "load_ownership").companies # <<>>
          THEN {"load_client"} ELSE {})
    \cup (IF active_tab = "insights" /\ ~Empty(filtered_holdings) THEN {"load_client"} ELSE {})
    \cup (IF active_tab = "about" THEN {"load_client"} ELSE {})

\* render_tab_content: what the tab is rendered from, and the memo after it
render_tab_content(c, active_tab, start_date, end_date, currency, asset_type, lang) ==
    LET date_range == IF start_date # <<>> /\ end_date # <<>>
                      THEN <<start_date, end_date>> ELSE <<>>
        t == request_tables(c, date_range, currency, asset_type)
        called == LoadersOfTab(c, active_tab, t.filtered_holdings)
        after == [CacheAfter(c, called) EXCEPT !["load_holdings"] = <<t.load_holdings>>,
                                              !["load_nav"] = <<t.load_nav>>]
        content ==
            CASE active_tab = "summary" -> render_summary_tab(t.filtered_holdings, t.filtered_nav)
              [] active_tab = "ownership" -> render_ownership_tab(Loaded(c, "load_ownership"))
              [] active_tab = "insights" ->
                    render_insights_tab(t.filtered_holdings, Loaded(c, "load_client"))
              [] active_tab = "reports" ->
                    render_reports_tab(t.filtered_holdings, after["load_nav"][1])
              [] active_tab = "about" -> render_about_tab(Loaded(c, "load_client"))
              [] OTHER -> [empty_state |-> "Select a tab"]
    IN  [out |-> [lang |-> IF lang = None THEN "en" ELSE lang,
                  currency_symbol |-> t.currency_symbol,
                  filtered_holdings |-> t.filtered_holdings,
                  filtered_nav |-> t.filtered_nav,
                  content |-> content],
         called |-> called,
         cache |-> after]

\* the columns of the holdings table, in file order
HoldingColumns ==
    <<"asset_name", "account_id", "asset_type", "last_valuation_date",
      "valuation_current", "valuation_cost_basis">>

\* DataFrame.to_csv(index=False): a header row, then a row of values for
\* every row of the table
to_csv(df) ==
    <<HoldingColumns>> \o
    [i \in 1..Len(df) |-> [k \in 1..Len(HoldingColumns) |-> df[i][HoldingColumns[k]]]]

\* export_holdings of the Dash front-end, after a click
export_holdings(c, asset_type) ==
    LET loaded_holdings == Frame(Loaded(c, "load_holdings"), TRUE)
        filtered == filter_holdings_frame(loaded_holdings, None, asset_type, <<>>)
    IN  to_csv(filtered.rows)

\* one run of the Streamlit script: every tab is rendered; the date range
\* always has both bounds
streamlit_app(c, start_date, end_date, currency, asset_type, lang) ==
    LET date_range == <<start_date, end_date>>
        t == request_tables(c, date_range, currency, asset_type)
        called == {"load_client", "load_holdings", "load_transactions", "load_nav",
                   "load_accounts", "load_ownership"}
        after == [CacheAfter(c, called) EXCEPT !["load_holdings"] = <<t.load_holdings>>,
                                              !["load_nav"] = <<t.load_nav>>]
    IN  [out |-> [lang |-> IF lang = None THEN "en" ELSE lang,
                  currency_symbol |-> t.currency_symbol,
                  filtered_holdings |-> t.filtered_holdings,
                  filtered_nav |-> t.filtered_nav,
                  content |-> streamlit_ownership(Loaded(c, "load_ownership")),
                  csv |-> to_csv(t.filtered_holdings)],
         called |-> called,
         cache |-> after]

----------------------------------------------------------------------------
(* Actions: one per function of the engine *)

CalcTotalValue ==
    /\ op = "init"
    /\ op' = "calculate_total_value"
    /\ arg' = 0
    /\ res' = calculate_total_value(holdings)
    /\ UNCHANGED <<tables, memo>>

CalcCostBasis ==
    /\ op = "init"
    /\ op' = "calculate_cost_basis"
    /\ arg' = 0
    /\ res' = calculate_cost_basis(holdings)
    /\ UNCHANGED <<tables, memo>>

CalcUnrealizedPnl ==
    /\ op = "init"
    /\ op' = "calculate_unrealized_pnl"
    /\ arg' = 0
    /\ res' = calculate_unrealized_pnl(holdings)
    /\ UNCHANGED <<tables, memo>>

CalcAssetAllocation ==
    /\ op = "init"
    /\ op' = "calculate_asset_allocation"
    /\ arg' = 0
    /\ res' \in calculate_asset_allocation(holdings)
    /\ UNCHANGED <<tables, memo>>

CalcRegionAllocation ==
    /\ op = "init"
    /\ op' = "calculate_region_allocation"
    /\ arg' = 0
    /\ res' \in calculate_region_allocation(holdings)
    /\ UNCHANGED <<tables, memo>>

CalcSectorAllocation ==
    /\ op = "init"
    /\ op' = "calculate_sector_allocation"
    /\ arg' = 0
    /\ res' \in calculate_sector_allocation(holdings)
    /\ UNCHANGED <<tables, memo>>

GetTopHoldings ==
    \E n \in 0..(MaxLen + 1) :
        /\ op = "init"
        /\ op' = "get_top_holdings"
        /\ arg' = n
        /\ res' \in get_top_holdings(holdings, n)
        /\ UNCHANGED <<tables, memo>>

CalcConcentration ==
    \E top_n \in 0..(MaxLen + 1) :
        /\ op = "init"
        /\ op' = "calculate_concentration"
        /\ arg' = top_n
        /\ res' \in calculate_concentration(holdings, top_n)
        /\ UNCHANGED <<tables, memo>>

CalcLiquidityScore ==
    /\ op = "init"
    /\ op' = "calculate_liquidity_score"
    /\ arg' = 0
    /\ res' = calculate_liquidity_score(holdings)
    /\ UNCHANGED <<tables, memo>>

CalcCashPercentage ==
    /\ op = "init"
    /\ op' = "calculate_cash_percentage"
    /\ arg' = 0
    /\ res' = calculate_cash_percentage(holdings)
    /\ UNCHANGED <<tables, memo>>

GenerateInsights ==
    \E client \in Clients :
        /\ op = "init"
        /\ op' = "generate_insights"
        /\ arg' = client
        /\ res' \in generate_insights(holdings, client)
        /\ UNCHANGED <<tables, memo>>

CalcReturnsFromNav ==
    \E period_days \in Windows :
        /\ op = "init"
        /\ op' = "calculate_returns_from_nav"
        /\ arg' = period_days
        /\ res' \in calculate_returns_from_nav(nav, period_days)
        /\ UNCHANGED <<tables, memo>>

CalcYtdReturn ==
    /\ op = "init"
    /\ op' = "calculate_ytd_return"
    /\ arg' = 0
    /\ res' \in calculate_ytd_return(nav)
    /\ UNCHANGED <<tables, memo>>

CalcVolatility ==
    \E annualized \in BOOLEAN :
        /\ op = "init"
        /\ op' = "calculate_volatility"
        /\ arg' = annualized
        /\ res' \in calculate_volatility(nav, annualized)
        /\ UNCHANGED <<tables, memo>>

CalcMaxDrawdown ==
    /\ op = "init"
    /\ op' = "calculate_max_drawdown"
    /\ arg' = 0
    /\ res' \in calculate_max_drawdown(nav)
    /\ UNCHANGED <<tables, memo>>

CalcDrawdownSeries ==
    /\ op = "init"
    /\ op' = "calculate_drawdown_series"
    /\ arg' = 0
    /\ res' \in calculate_drawdown_series(nav)
    /\ UNCHANGED <<tables, memo>>

CalcMonthlyReturns ==
    /\ op = "init"
    /\ op' = "calculate_monthly_returns"
    /\ arg' = 0
    /\ res' \in calculate_monthly_returns(nav)
    /\ UNCHANGED <<tables, memo>>

DownsampleNav ==
    \E max_points \in 0..MaxNavLen :
        /\ op = "init"
        /\ op' = "downsample_nav"
        /\ arg' = max_points
        /\ res' = downsample_nav(nav, max_points)
        /\ UNCHANGED <<tables, memo>>

CalcCashflowSummary ==
    /\ op = "init"
    /\ op' = "calculate_cashflow_summary"
    /\ arg' = 0
    /\ res' = calculate_cashflow_summary(transactions)
    /\ UNCHANGED <<tables, memo>>

CalcIncomeSummary ==
    /\ op = "init"
    /\ op' = "calculate_income_summary"
    /\ arg' = 0
    /\ res' = calculate_income_summary(transactions)
    /\ UNCHANGED <<tables, memo>>

FilterHoldings ==
    \E account_id \in AccountCriteria, asset_type \in HoldingTypeCriteria,
       date_range \in DateRanges :
        /\ op = "init"
        /\ op' = "filter_holdings"
        /\ arg' = [account_id |-> account_id, type |-> asset_type,
                   date_range |-> date_range]
        /\ res' = filter_holdings(holdings, account_id, asset_type, date_range)
        /\ UNCHANGED <<tables, memo>>

FilterTransactions ==
    \E account_id \in AccountCriteria, tx_type \in TransactionTypeCriteria,
       date_range \in DateRanges :
        /\ op = "init"
        /\ op' = "filter_transactions"
        /\ arg' = [account_id |-> account_id, type |-> tx_type,
                   date_range |-> date_range]
        /\ res' = filter_transactions(transactions, account_id, tx_type, date_range)
        /\ UNCHANGED <<tables, memo>>

FilterNav ==
    \E account_id \in AccountCriteria, date_range \in DateRanges :
        /\ op = "init"
        /\ op' = "filter_nav"
        /\ arg' = [account_id |-> account_id, type |-> None,
                   date_range |-> date_range]
        /\ res' = filter_nav(nav, account_id, date_range)
        /\ UNCHANGED <<tables, memo>>

\* a call of one of the loaders
Load ==
    \E l \in Loaders :
        /\ op = "init"
        /\ op' = l
        /\ arg' = 0
        /\ res' = Loaded(cache, l)
        /\ cache' = CacheAfter(cache, {l})
        /\ reads' = ReadsAfter(cache, reads, {l})
        /\ UNCHANGED tables

ReloadData ==
    /\ op = "init"
    /\ op' = "reload_data"
    /\ arg' = 0
    /\ res' = Zero
    /\ cache' = reload_data
    /\ reads' = NoReads
    /\ UNCHANGED tables

\* render_ownership_tab of the Dash front-end, called for the ownership tab
RenderOwnershipTab ==
    LET called == {"load_ownership"}
                  \cup (IF Loaded(cache, "load_ownership").companies # <<>>
                        THEN {"load_client"} ELSE {})
    IN  /\ op = "init"
        /\ op' = "render_ownership_tab"
        /\ arg' = 0
        /\ res' = render_ownership_tab(Loaded(cache, "load_ownership"))
        /\ cache' = CacheAfter(cache, called)
        /\ reads' = ReadsAfter(cache, reads, called)
        /\ UNCHANGED tables

\* a request to the Dash front-end: the callback render_tab_content
RenderTabContent ==
    /\ op = "init"
    /\ \E active_tab \in Tabs, start_date \in StartDates, end_date \in EndDates,
          currency \in Currencies, asset_type \in AssetTypeFilters, lang \in Langs :
        \E r \in {render_tab_content(cache, active_tab, start_date, end_date,
                                      currency, asset_type, lang)} :
            /\ op' = "render_tab_content"
            /\ arg' = [active_tab |-> active_tab, start_date |-> start_date,
                       end_date |-> end_date, currency |-> currency,
                       asset_type |-> asset_type, lang |-> lang]
            /\ res' = r.out
            /\ cache' = r.cache
            /\ reads' = ReadsAfter(cache, reads, r.called)
            /\ UNCHANGED tables

\* a click on the export button of the Dash front-end while the filter bar
\* shows the date range and asset type of arg; the callback is passed the
\* asset type only
ExportHoldings ==
    \E start_date \in StartDates, end_date \in EndDates, asset_type \in AssetTypeFilters :
        /\ op = "init"
        /\ op' = "export_holdings"
        /\ arg' = [active_tab |-> "reports", start_date |-> start_date,
                   end_date |-> end_date, currency |-> "EUR",
                   asset_type |-> asset_type, lang |-> None]
        /\ res' = [csv |-> export_holdings(cache, asset_type)]
        /\ cache' = CacheAfter(cache, {"load_holdings"})
        /\ reads' = ReadsAfter(cache, reads, {"load_holdings"})
        /\ UNCHANGED tables

\* a run of the Streamlit script
StreamlitApp ==
    /\ op = "init"
    /\ \E start_date \in StartDates \ {<<>>}, end_date \in EndDates,
          currency \in Currencies, asset_type \in AssetTypeFilters, lang \in Langs :
        \E r \in {streamlit_app(cache, start_date, end_date, currency, asset_type, lang)} :
            /\ op' = "streamlit_app"
            /\ arg' = [active_tab |-> "all", start_date |-> start_date,
                       end_date |-> end_date, currency |-> currency,
                       asset_type |-> asset_type, lang |-> lang]
            /\ res' = r.out
            /\ cache' = r.cache
            /\ reads' = ReadsAfter(cache, reads, r.called)
            /\ UNCHANGED tables

\* the call returns to its caller, which may make the next call
Return ==
    /\ op # "init"
    /\ op' = "init"
    /\ arg' = 0
    /\ res' = Zero
    /\ UNCHANGED <<tables, memo>>

----------------------------------------------------------------------------
(* Specifications *)

\* valuation, P&L, top holdings, concentration and insights of a holdings table
InitPnl ==
    /\ holdings \in PnlTables
    /\ nav = <<>>
    /\ transactions = <<>>
    /\ ownership = NoOwnership
    /\ ColdStart
    /\ op = "init"
    /\ arg = 0
    /\ res = Zero

NextPnl ==
    \/ CalcTotalValue
    \/ CalcCostBasis
    \/ CalcUnrealizedPnl
    \/ GetTopHoldings
    \/ CalcConcentration
    \/ GenerateInsights
    \/ Return

SpecPnl == InitPnl /\ [][NextPnl]_vars

\* the breakdowns of a holdings table by asset class, region and sector
InitAlloc ==
    /\ holdings \in AllocTables
    /\ nav = <<>>
    /\ transactions = <<>>
    /\ ownership = NoOwnership
    /\ ColdStart
    /\ op = "init"
    /\ arg = 0
    /\ res = Zero

NextAlloc ==
    \/ CalcAssetAllocation
    \/ CalcRegionAllocation
    \/ CalcSectorAllocation
    \/ CalcCashPercentage
    \/ CalcLiquidityScore
    \/ Return

SpecAlloc == InitAlloc /\ [][NextAlloc]_vars

\* returns and drawdown of a NAV series
InitNav ==
    /\ holdings = <<>>
    /\ nav \in NavTables
    /\ transactions = <<>>
    /\ ownership = NoOwnership
    /\ ColdStart
    /\ op = "init"
    /\ arg = 0
    /\ res = Zero

NextNav ==
    \/ CalcReturnsFromNav
    \/ CalcYtdReturn
    \/ CalcMaxDrawdown
    \/ Return

SpecNav == InitNav /\ [][NextNav]_vars

\* liquidity score, cash percentage and the valuations they go with, on
\* tables of every liquidity schema
InitLiquidity ==
    /\ holdings \in LiquidityTables \cup {ExampleHoldings}
    /\ nav = <<>>
    /\ transactions = <<>>
    /\ ownership = NoOwnership
    /\ ColdStart
    /\ op = "init"
    /\ arg = 0
    /\ res = Zero

NextLiquidity ==
    \/ CalcLiquidityScore
    \/ CalcCashPercentage
    \/ CalcTotalValue
    \/ CalcUnrealizedPnl
    \/ Return

SpecLiquidity == InitLiquidity /\ [][NextLiquidity]_vars

\* the insights, on tables of every kind a rule looks at
InitInsights ==
    /\ holdings \in InsightTables
    /\ nav = <<>>
    /\ transactions = <<>>
    /\ ownership = NoOwnership
    /\ ColdStart
    /\ op = "init"
    /\ arg = 0
    /\ res = Zero

NextInsights ==
    \/ GenerateInsights
    \/ Return

SpecInsights == InitInsights /\ [][NextInsights]_vars

\* cashflow and income, on transactions tables
InitTx ==
    /\ holdings = <<>>
    /\ nav = <<>>
    /\ transactions \in TxTables
    /\ ownership = NoOwnership
    /\ ColdStart
    /\ op = "init"
    /\ arg = 0
    /\ res = Zero

NextTx ==
    \/ CalcCashflowSummary
    \/ CalcIncomeSummary
    \/ Return

SpecTx == InitTx /\ [][NextTx]_vars

\* the three filters, on tables of rows that differ in account, type and date
InitFilter ==
    /\ \/ /\ holdings \in SeqsUpTo(FilterHoldingRows, MaxFilterLen)
          /\ nav = <<>>
          /\ transactions = <<>>
       \/ /\ holdings = <<>>
          /\ nav \in SeqsUpTo(FilterNavRows, MaxFilterLen)
          /\ transactions = <<>>
       \/ /\ holdings = <<>>
          /\ nav = <<>>
          /\ transactions \in SeqsUpTo(FilterTransactionRows, MaxFilterLen)
    /\ ownership = NoOwnership
    /\ ColdStart
    /\ op = "init"
    /\ arg = 0
    /\ res = Zero

NextFilter ==
    \/ FilterHoldings
    \/ FilterTransactions
    \/ FilterNav
    \/ Return

SpecFilter == InitFilter /\ [][NextFilter]_vars

\* the loaders and reload_data, called in any order
InitLoader ==
    /\ holdings \in {<<>>, ExampleHoldings}
    /\ nav \in SeqsUpTo(TurnRows, 1)
    /\ transactions \in {<<>>, AppTransactions}
    /\ ownership \in {NoOwnership, OneCompany}
    /\ ColdStart
    /\ op = "init"
    /\ arg = 0
    /\ res = Zero

NextLoader ==
    \/ Load
    \/ ReloadData
    \/ Return

SpecLoader == InitLoader /\ [][NextLoader]_vars

\* the ownership tab of the two front-ends, on ownership files of every tier
InitOwnership ==
    /\ holdings = <<>>
    /\ nav = <<>>
    /\ transactions = <<>>
    /\ ownership \in OwnershipFiles
    /\ ColdStart
    /\ op = "init"
    /\ arg = 0
    /\ res = Zero

NextOwnership ==
    \/ RenderOwnershipTab
    \/ StreamlitApp
    \/ Return

SpecOwnership == InitOwnership /\ [][NextOwnership]_vars

\* the requests of the two front-ends, on fixtures whose holdings differ in
\* type and date
InitApp ==
    /\ holdings \in AppHoldings
    /\ nav = AppNav
    /\ transactions = AppTransactions
    /\ ownership = OneCompany
    /\ ColdStart
    /\ op = "init"
    /\ arg = 0
    /\ res = Zero

NextApp ==
    \/ RenderTabContent
    \/ ExportHoldings
    \/ StreamlitApp
    \/ Return

SpecApp == InitApp /\ [][NextApp]_vars

\* every function of the engine, on tables at and around the shortest the
\* functions work on: one table varies, the other two are empty
InitShort ==
    /\ \/ /\ holdings \in {WithNames(t) : t \in SeqsUpTo(PnlRows \cup SectorRows, 1)}
          /\ nav = <<>>
          /\ transactions = <<>>
       \/ /\ holdings = <<>>
          /\ nav \in SeqsUpTo(TurnRows, MinVolatilityPoints)
          /\ transactions = <<>>
       \/ /\ holdings = <<>>
          /\ nav = <<>>
          /\ transactions \in SeqsUpTo(TxRows, 1)
    /\ ownership = NoOwnership
    /\ ColdStart
    /\ op = "init"
    /\ arg = 0
    /\ res = Zero

NextShort ==
    \/ CalcTotalValue
    \/ CalcCostBasis
    \/ CalcUnrealizedPnl
    \/ CalcAssetAllocation
    \/ CalcRegionAllocation
    \/ CalcSectorAllocation
    \/ GetTopHoldings
    \/ CalcConcentration
    \/ CalcLiquidityScore
    \/ CalcCashPercentage
    \/ GenerateInsights
    \/ CalcReturnsFromNav
    \/ CalcYtdReturn
    \/ CalcVolatility
    \/ CalcMaxDrawdown
    \/ CalcDrawdownSeries
    \/ CalcMonthlyReturns
    \/ DownsampleNav
    \/ CalcCashflowSummary
    \/ CalcIncomeSummary
    \/ Return

SpecShort == InitShort /\ [][NextShort]_vars

----------------------------------------------------------------------------
(* Claims about valuation, P&L, top holdings and concentration (SpecPnl)    *)

\* C1: calculate_unrealized_pnl returns pnl_abs = sum(valuation_current) -
\* sum(valuation_cost_basis); pnl_pct is pnl_abs / cost_sum * 100 when the
\* cost sum is > 0 and exactly 0 when it is 0 (or the table is empty); the
\* percentage is always a finite number, so a zero cost basis is no error.
C1_UnrealizedPnl ==
    op = "calculate_unrealized_pnl" =>
        LET current == SumCol(holdings, "valuation_current")
            cost == SumCol(holdings, "valuation_cost_basis")
        IN  /\ res.pnl_abs = Fl(current - cost)
            /\ IsFinite(res.pnl_pct)
            /\ cost > 0 => res.pnl_pct.n * cost = (current - cost) * 100 * res.pnl_pct.d
            /\ cost = 0 => res.pnl_pct = Zero

C1_Witness ==
    /\ op = "calculate_unrealized_pnl"
    /\ Len(holdings) >= 2
    /\ SumCol(holdings, "valuation_cost_basis") = 0
    /\ SumCol(holdings, "valuation_current") > 0
    /\ res.pnl_pct = Zero

\* the values of the concentration call for top_n on the current table
ConcentrationAt(top_n) == calculate_concentration(holdings, top_n)

\* concentration never increases when n decreases: the result for arg is at
\* most the result for every larger n
ConcentrationMonotone ==
    \A m \in arg..(MaxLen + 1) : \A c \in ConcentrationAt(m) : FLe(res, c)

\* C4 as claimed: concentration(h, n) never increases when n decreases, and
\* it equals 100 whenever n >= the number of holdings.
C4_Original ==
    op = "calculate_concentration" =>
        /\ ConcentrationMonotone
        /\ arg >= Len(holdings) => res = Fl(100)

\* C4 as amended: concentration(h, n) never increases when n decreases; it
\* equals 100 whenever n >= the number of holdings and the total value is
\* > 0, and it is 0 when the table is empty or the total value is 0.
C4_Concentration ==
    op = "calculate_concentration" =>
        /\ ConcentrationMonotone
        /\ (arg >= Len(holdings) /\ SumCol(holdings, "valuation_current") > 0)
               => res = Fl(100)
        /\ SumCol(holdings, "valuation_current") = 0 => res = Zero

C4_Witness ==
    /\ op = "calculate_concentration"
    /\ Len(holdings) = 3
    /\ arg = 3
    /\ res = Fl(100)
    /\ \E c \in ConcentrationAt(1) : FLt(c, res) /\ FLt(Zero, c)

\* C10 as claimed: wherever a per-holding P&L percentage is computed with
\* valuation_cost_basis as denominator (the rows of get_top_holdings, the
\* best performer of generate_insights), a holding whose cost basis is 0 gets
\* a percentage of 0, never an infinite or undefined one.
C10_ZeroCostBasisPct ==
    /\ op = "get_top_holdings" =>
           \A i \in 1..Len(res) :
               res[i].valuation_cost_basis = 0 => res[i].unrealized_pnl_pct = Zero
    /\ (op = "generate_insights" /\ Len(holdings) > 0) =>
           \A i \in 1..Len(holdings) :
               (holdings[i].asset_name = res[2].subject
                /\ holdings[i].valuation_cost_basis = 0) => res[2].value = Zero

\* the position in the holdings table of the row named by a result row
PositionOf(row) == CHOOSE i \in 1..Len(holdings) : holdings[i].asset_name = row.asset_name

\* the holding at position p comes before the one at position q when sorted
\* by valuation_current descending with ties in table order
RanksBefore(p, q) ==
    \/ holdings[p].valuation_current > holdings[q].valuation_current
    \/ holdings[p].valuation_current = holdings[q].valuation_current /\ p < q

\* res is the first Len(res) holdings of that order, in that order
IsStableTop ==
    LET pos == [i \in 1..Len(res) |-> PositionOf(res[i])]
        chosen == {pos[i] : i \in 1..Len(res)}
    IN  /\ \A i \in 1..Len(res) :
               /\ \E k \in 1..Len(holdings) : holdings[k].asset_name = res[i].asset_name
               /\ res[i].valuation_current = holdings[pos[i]].valuation_current
        /\ \A i, j \in 1..Len(res) : i < j => RanksBefore(pos[i], pos[j])
        /\ \A p \in chosen : \A q \in (1..Len(holdings)) \ chosen : RanksBefore(p, q)

TopHoldingsStableBelowLen ==
    (op = "get_top_holdings" /\ arg < Len(holdings)) =>
        /\ Len(res) = arg
        /\ IsStableTop

\* for every n the right number of rows comes back, in descending order of
\* valuation_current, and no holding left out is worth more than one returned
TopHoldingsSelected ==
    op = "get_top_holdings" =>
        /\ Len(res) = IF arg < Len(holdings) THEN arg ELSE Len(holdings)
        /\ \A i \in 1..(Len(res) - 1) : res[i].valuation_current >= res[i + 1].valuation_current
        /\ \A i, j \in 1..Len(res) : i # j => res[i].asset_name # res[j].asset_name
        /\ \A i \in 1..Len(res) : \A q \in 1..Len(holdings) :
               (\A j \in 1..Len(res) : res[j].asset_name # holdings[q].asset_name)
                   => holdings[q].valuation_current <= res[i].valuation_current

----------------------------------------------------------------------------
(* Claims about the allocation breakdowns (SpecAlloc)                       *)

IsAllocation == op \in {"calculate_asset_allocation", "calculate_region_allocation",
                        "calculate_sector_allocation"}

PctSum(rows) == FSum([i \in 1..Len(rows) |-> rows[i].percentage])

ValueDescending(rows) ==
    \A i \in 1..(Len(rows) - 1) : rows[i].value >= rows[i + 1].value

\* the Shares holdings, and those of them that carry a sector
SharesOf(h) == SelectSeq(h, LAMBDA r : r.asset_type = "Shares")
SectoredSharesOf(h) == SelectSeq(h, LAMBDA r : r.asset_type = "Shares" /\ r.sector # "None")

C3_NullSectorBucket ==
    op = "calculate_sector_allocation" =>
        LET unsectored == SelectSeq(SharesOf(holdings), LAMBDA r : r.sector = "None")
        IN  /\ SumCol(res, "value") = SumCol(SharesOf(holdings), "valuation_current")
            /\ Len(unsectored) > 0 =>
                   \E i \in 1..Len(res) :
                       /\ res[i].key = "None"
                       /\ res[i].value = SumCol(unsectored, "valuation_current")

----------------------------------------------------------------------------
(* Claims about the liquidity score and the cash percentage (SpecLiquidity) *)

HasCategorical(h) ==
    Len(h) > 0 /\ "liquidity" \in DOMAIN h[1] /\ h[1].liquidity.dtype = "object"

HasScore(h) == Len(h) > 0 /\ "liquidity_score" \in DOMAIN h[1]

\* the weight of a category, in tenths
WeightOf(c) ==
    CASE c = "Large" -> 9 [] c = "Moderate" -> 5 [] c = "Small" -> 2 [] OTHER -> 5

RECURSIVE CategoricalWeighted(_)
CategoricalWeighted(h) ==
    IF Len(h) = 0 THEN 0
    ELSE WeightOf(h[1].liquidity.v) * h[1].valuation_current + CategoricalWeighted(Tail(h))

RECURSIVE ScoreWeighted(_)
ScoreWeighted(h) ==
    IF Len(h) = 0 THEN 0
    ELSE h[1].liquidity_score * h[1].valuation_current + ScoreWeighted(Tail(h))

TotalValue(h) == SumCol(h, "valuation_current")

\* C12: with a categorical liquidity field calculate_liquidity_score returns
\* sum(w_i * valuation_current_i) / sum(valuation_current_i), w = 0.9 for
\* Large, 0.5 for Moderate, 0.2 for Small and 0.5 for any other or missing
\* category; with non-negative valuations of positive total the result lies
\* between 0.2 and 0.9.
C12_LiquidityScore ==
    (op = "calculate_liquidity_score" /\ HasCategorical(holdings)
     /\ TotalValue(holdings) > 0) =>
        /\ res = Norm(CategoricalWeighted(holdings), 10 * TotalValue(holdings))
        /\ FLe(Norm(2, 10), res)
        /\ FLe(res, Norm(9, 10))

\* a table with a category outside the map and a missing one beside Large
C12_Witness ==
    /\ op = "calculate_liquidity_score"
    /\ HasCategorical(holdings)
    /\ Len(holdings) = 3
    /\ \A c \in {"Large", "Illiquid", "None"} :
           \E i \in 1..3 : holdings[i].liquidity.v = c /\ holdings[i].valuation_current > 0
    /\ FLt(Norm(1, 2), res)

\* C13 as claimed: for every holdings table with neither a categorical
\* liquidity field nor a numeric liquidity_score field
\* calculate_liquidity_score returns the constant 0.5; the categorical field
\* is tried first, the numeric field second, the constant last.  Stated for
\* the tables that have a row.
C13_Original ==
    (op = "calculate_liquidity_score" /\ Len(holdings) > 0) =>
        /\ (~HasCategorical(holdings) /\ ~HasScore(holdings)) => res = Norm(1, 2)
        /\ (HasCategorical(holdings) /\ TotalValue(holdings) > 0) =>
               res = Norm(CategoricalWeighted(holdings), 10 * TotalValue(holdings))
        /\ (~HasCategorical(holdings) /\ HasScore(holdings) /\ TotalValue(holdings) > 0) =>
               res = Norm(ScoreWeighted(holdings), 10 * TotalValue(holdings))

\* C13 as amended: the empty table and the table of total value 0 give 0
\* whatever their columns; a table of positive total value with neither
\* field gives the constant 0.5; the categorical field is tried first, the
\* numeric field second, the constant last.
C13_FallbackChain ==
    op = "calculate_liquidity_score" =>
        /\ (Empty(holdings) \/ TotalValue(holdings) = 0) => res = Zero
        /\ (~HasCategorical(holdings) /\ ~HasScore(holdings) /\ TotalValue(holdings) > 0) =>
               res = Norm(1, 2)
        /\ (HasCategorical(holdings) /\ TotalValue(holdings) > 0) =>
               res = Norm(CategoricalWeighted(holdings), 10 * TotalValue(holdings))
        /\ (~HasCategorical(holdings) /\ HasScore(holdings) /\ TotalValue(holdings) > 0) =>
               res = Norm(ScoreWeighted(holdings), 10 * TotalValue(holdings))

\* both fields are there and the categorical one decides
C13_Witness ==
    /\ op = "calculate_liquidity_score"
    /\ HasCategorical(holdings)
    /\ HasScore(holdings)
    /\ TotalValue(holdings) > 0
    /\ res = Norm(9, 10)

\* C14: calculate_cash_percentage is sum(valuation_current of the Liquid
\* holdings) / sum(valuation_current of all holdings) * 100, and 0 when the
\* table is empty or the total is 0; for [{A, Shares, 600, cost 500},
\* {B, Liquid, 400, cost 400}] it is 40, the total value 1000 and the
\* absolute P&L 100.
C14_CashPercentage ==
    /\ op = "calculate_cash_percentage" =>
           LET liquid == SumCol(SelectSeq(holdings, LAMBDA r : r.asset_type = "Liquid"),
                                "valuation_current")
           IN  /\ TotalValue(holdings) > 0 =>
                      /\ IsFinite(res)
                      /\ res.n * TotalValue(holdings) = liquid * 100 * res.d
               /\ (Empty(holdings) \/ TotalValue(holdings) = 0) => res = Zero
    /\ holdings = ExampleHoldings =>
           /\ op = "calculate_cash_percentage" => res = Fl(40)
           /\ op = "calculate_total_value" => res = Fl(1000)
           /\ op = "calculate_unrealized_pnl" => res.pnl_abs = Fl(100)

C14_Witness ==
    /\ op = "calculate_cash_percentage"
    /\ holdings = ExampleHoldings
    /\ res = Fl(40)

----------------------------------------------------------------------------
(* Claims about the insights (SpecInsights)                                 *)

InsightsOfRows == op = "generate_insights" /\ Len(holdings) > 0

Titles == [i \in 1..Len(res) |-> res[i].title]

\* the entries of res with the title t
Entries(t) == SelectSeq(res, LAMBDA e : e.title = t)

\* current / cost_basis - 1, in percent, of the holding at position i
PctAt(i) ==
    Norm((holdings[i].valuation_current - holdings[i].valuation_cost_basis) * 100,
         holdings[i].valuation_cost_basis)

\* C15: generate_insights never emits an "Underperformer" insight when every
\* holding's P&L percentage (current / cost_basis - 1) is >= 0, and emits
\* exactly one, naming the holding with the lowest P&L percentage, when at
\* least one holding's P&L percentage is negative.
C15_Underperformer ==
    InsightsOfRows =>
        /\ (\A i \in 1..Len(holdings) : FLe(Zero, PctAt(i)))
               => Len(Entries("Underperformer")) = 0
        /\ (\E i \in 1..Len(holdings) : FLt(PctAt(i), Zero)) =>
               /\ Len(Entries("Underperformer")) = 1
               /\ \E w \in 1..Len(holdings) :
                      /\ holdings[w].asset_name = Entries("Underperformer")[1].subject
                      /\ \A i \in 1..Len(holdings) :
                             IsNaN(PctAt(i)) \/ FLe(PctAt(w), PctAt(i))

\* the worst of three holdings lost value while another broke even
C15_Witness ==
    /\ InsightsOfRows
    /\ Len(holdings) = 3
    /\ Len(Entries("Underperformer")) = 1
    /\ Entries("Underperformer")[1].subject = "C"
    /\ Entries("Underperformer")[1].value = Fl(50)
    /\ PctAt(1) = Zero

\* the percentage of the total value held in asset class t, 0 without it
ActualPct(t) ==
    IF SumCol(holdings, "valuation_current") > 0
    THEN Norm(100 * SumCol(SelectSeq(holdings, LAMBDA r : r.asset_type = t),
                           "valuation_current"),
              SumCol(holdings, "valuation_current"))
    ELSE Zero

\* actual percentage - target fraction * 100
DriftOf(target) == FSub(ActualPct(target.asset_type), FMul(target.target_pct, Fl(100)))

\* the classes of the client's targets whose drift is beyond 5 points, in the
\* order of the targets
Drifted == SelectSeq(arg.target_allocation, LAMBDA t : FGt(FAbs(DriftOf(t)), Fl(5)))

\* the Allocation Drift entry reports just the drifted classes, each with its
\* drift and as overweight when the drift is > 0, underweight otherwise
DriftReported ==
    LET drifts == Entries("Allocation Drift")[1].drifts
    IN  /\ Len(drifts) = Len(Drifted)
        /\ \A i \in 1..Len(drifts) :
               /\ drifts[i].asset_type = Drifted[i].asset_type
               /\ drifts[i].drift = DriftOf(Drifted[i])
               /\ drifts[i].direction =
                      IF FGt(DriftOf(Drifted[i]), Zero) THEN "overweight" ELSE "underweight"

\* C16 as claimed: with non-empty holdings, each asset class with a target
\* weight has drift = actual_percentage - target_fraction * 100 (actual 0
\* for a class without holdings) and is reported in the "Allocation Drift"
\* insight iff |drift| > 5, overweight when drift > 0 and underweight
\* otherwise; if no class exceeds the threshold a single "Allocation Status"
\* insight is emitted instead, so exactly one of the two insights appears.
C16_Original ==
    InsightsOfRows =>
        /\ Len(Entries("Allocation Drift")) + Len(Entries("Allocation Status")) = 1
        /\ Len(Drifted) > 0 => (Len(Entries("Allocation Drift")) = 1 /\ DriftReported)
        /\ Len(Drifted) = 0 => Len(Entries("Allocation Status")) = 1

\* C16 as amended: the same for a client with at least one target weight;
\* for a client without target weights neither insight appears.
C16_AllocationDrift ==
    InsightsOfRows =>
        /\ Len(arg.target_allocation) > 0 =>
               /\ Len(Entries("Allocation Drift")) + Len(Entries("Allocation Status")) = 1
               /\ Len(Drifted) > 0 => (Len(Entries("Allocation Drift")) = 1 /\ DriftReported)
               /\ Len(Drifted) = 0 => Len(Entries("Allocation Status")) = 1
        /\ Len(arg.target_allocation) = 0 =>
               Len(Entries("Allocation Drift")) + Len(Entries("Allocation Status")) = 0

\* Liquid is 75 percent against a target of 70: a drift of exactly 5 is not
\* reported, while Shares, at 25 against 30, is 5 below and not reported
\* either, so the portfolio counts as aligned
C16_Witness ==
    /\ InsightsOfRows
    /\ Len(arg.target_allocation) = 2
    /\ ActualPct("Liquid") = Fl(75)
    /\ Len(Entries("Allocation Status")) = 1

\* C17: generate_insights on an empty holdings table returns exactly one
\* insight, the "No Data" insight, and none of the six rule insights.
C17_NoDataOnly ==
    (op = "generate_insights" /\ Empty(holdings)) =>
        /\ Len(res) = 1
        /\ res[1].title = "No Data"

C17_Witness ==
    /\ op = "generate_insights"
    /\ Empty(holdings)
    /\ Len(arg.target_allocation) > 0
    /\ Titles = <<"No Data">>

\* the titles of the rules, in the order of the rules
RuleTitles ==
    <<"Largest Position", "Best Performer", "Underperformer", "Allocation Drift",
      "Allocation Status", "Liquidity Profile", "Concentration Alert">>

RuleOf(title) == CHOOSE k \in 1..Len(RuleTitles) : RuleTitles[k] = title

\* C18: for non-empty holdings the list is in the order Largest Position,
\* Best Performer, Underperformer (optional), Allocation Drift or Allocation
\* Status (at most one), Liquidity Profile, Concentration Alert (optional);
\* Largest Position, Best Performer and Liquidity Profile are always there,
\* each title occurs at most once, and every entry has a title and a text
\* (here: the subject, value and drifts the text is written from).
C18_InsightOrder ==
    InsightsOfRows =>
        /\ \A i \in 1..Len(res) :
               /\ DOMAIN res[i] = {"title", "subject", "value", "drifts"}
               /\ \E k \in 1..Len(RuleTitles) : RuleTitles[k] = res[i].title
        /\ \A i, j \in 1..Len(res) : i < j => RuleOf(res[i].title) < RuleOf(res[j].title)
        /\ Len(Entries("Allocation Drift")) + Len(Entries("Allocation Status")) <= 1
        /\ \A t \in {"Largest Position", "Best Performer", "Liquidity Profile"} :
               Len(Entries(t)) = 1

\* all six rules speak
C18_Witness ==
    /\ InsightsOfRows
    /\ Titles = <<"Largest Position", "Best Performer", "Underperformer",
                  "Allocation Drift", "Liquidity Profile", "Concentration Alert">>

\* C19: the "Liquidity Profile" insight puts the value-weighted liquidity
\* score s into exactly one of three bands: highly liquid when s >= 0.7,
\* moderately liquid when 0.4 <= s < 0.7, less liquid when s < 0.4.
C19_LiquidityBands ==
    InsightsOfRows =>
        LET s == calculate_liquidity_score(holdings)
            profile == Entries("Liquidity Profile")
        IN  /\ Len(profile) = 1
            /\ profile[1].value = s
            /\ profile[1].subject \in {"highly liquid", "moderately liquid",
                                        "less liquid with longer exit horizons"}
            /\ profile[1].subject = "highly liquid" <=> FLe(Norm(7, 10), s)
            /\ profile[1].subject = "moderately liquid"
                   <=> (FLe(Norm(4, 10), s) /\ FLt(s, Norm(7, 10)))
            /\ profile[1].subject = "less liquid with longer exit horizons"
                   <=> FLt(s, Norm(4, 10))

\* a score of exactly 0.4 is moderately liquid
C19_Witness ==
    /\ InsightsOfRows
    /\ Entries("Liquidity Profile")[1].value = Norm(4, 10)
    /\ Entries("Liquidity Profile")[1].subject = "moderately liquid"

----------------------------------------------------------------------------
(* Claims about cashflow and income (SpecTx)                                *)

\* the transactions of calendar month m
TxOfMonth(m) == SelectSeq(transactions, LAMBDA t : to_period_M(t.date) = m)

TxMonths == {to_period_M(transactions[i].date) : i \in 1..Len(transactions)}

\* C21: calculate_cashflow_summary returns one row per calendar month that
\* has transactions; in each row inflows is the sum of the positive amounts
\* of the month, outflows the sum of the absolute values of the negative
\* amounts, both >= 0, and net = inflows - outflows, the signed sum of all
\* amounts of the month.
C21_CashflowSummary ==
    op = "calculate_cashflow_summary" =>
        /\ Len(res) = Cardinality(TxMonths)
        /\ {res[k].month : k \in 1..Len(res)} = TxMonths
        /\ \A k \in 1..Len(res) :
               LET rows == TxOfMonth(res[k].month)
               IN  /\ res[k].inflows =
                          SumCol(SelectSeq(rows, LAMBDA t : t.amount > 0), "amount")
                   /\ res[k].outflows =
                          0 - SumCol(SelectSeq(rows, LAMBDA t : t.amount < 0), "amount")
                   /\ res[k].inflows >= 0
                   /\ res[k].outflows >= 0
                   /\ res[k].net = res[k].inflows - res[k].outflows
                   /\ res[k].net = SumCol(rows, "amount")

\* two Januaries of different years and money going both ways
C21_Witness ==
    /\ op = "calculate_cashflow_summary"
    /\ Len(transactions) = 3
    /\ Len(res) = 2
    /\ res[1].month = 0
    /\ res[2].month = 12
    /\ res[1].inflows = 2
    /\ res[1].outflows = 1

IncomeTypes == {"dividend", "rent", "interest"}

\* C22: calculate_income_summary returns dividends, rent and interest as the
\* sums of the amounts of the transactions of type dividend, rent and
\* interest, and total = dividends + rent + interest; transactions of type
\* buy, sell or fee change none of the four values.
C22_IncomeSummary ==
    op = "calculate_income_summary" =>
        LET OfType(ty) == SumCol(SelectSeq(transactions, LAMBDA t : t.type = ty), "amount")
        IN  /\ res.dividends = OfType("dividend")
            /\ res.rent = OfType("rent")
            /\ res.interest = OfType("interest")
            /\ res.total = res.dividends + res.rent + res.interest
            /\ res = calculate_income_summary(
                         SelectSeq(transactions, LAMBDA t : t.type \in IncomeTypes))

\* a dividend beside a fee and a purchase
C22_Witness ==
    /\ op = "calculate_income_summary"
    /\ \A ty \in {"dividend", "fee", "buy"} :
           \E i \in 1..Len(transactions) : transactions[i].type = ty
    /\ res.total = 2

----------------------------------------------------------------------------
(* Claims about the filters (SpecFilter)                                    *)

\* whether a value meets a criterion that restricts unless None or "all"
MeetsEq(v, criterion) == criterion \in {None, "all"} \/ v = criterion

\* whether a date lies in the range, both supplied bounds included
MeetsRange(d, date_range) ==
    \/ date_range = <<>>
    \/ /\ date_range[1] # <<>> => d >= date_range[1][1]
       /\ date_range[2] # <<>> => d <= date_range[2][1]

\* the criteria of the call, supplied one at a time
OnlyAccount == [account_id |-> arg.account_id, type |-> None, date_range |-> <<>>]
OnlyType == [account_id |-> None, type |-> arg.type, date_range |-> <<>>]
OnlyRange == [account_id |-> None, type |-> None, date_range |-> arg.date_range]
CriteriaOrders ==
    {<<OnlyAccount, OnlyType, OnlyRange>>, <<OnlyAccount, OnlyRange, OnlyType>>,
     <<OnlyType, OnlyAccount, OnlyRange>>, <<OnlyType, OnlyRange, OnlyAccount>>,
     <<OnlyRange, OnlyAccount, OnlyType>>, <<OnlyRange, OnlyType, OnlyAccount>>}

HoldingsBy(h, c) == filter_holdings(h, c.account_id, c.type, c.date_range)
TransactionsBy(tx, c) == filter_transactions(tx, c.account_id, c.type, c.date_range)

\* C23: filter_holdings and filter_transactions return exactly the input
\* rows, in input order, that meet every supplied criterion (account equal,
\* type equal, date within the inclusive range; None and "all" do not
\* restrict); the criteria applied one at a time in any order give the same
\* rows, and filtering the result again with the same criteria changes nothing.
C23_FiltersCompose ==
    /\ op = "filter_holdings" =>
        /\ res = SelectSeq(holdings, LAMBDA r :
                    /\ MeetsEq(r.account_id, arg.account_id)
                    /\ MeetsEq(r.asset_type, arg.type)
                    /\ MeetsRange(r.last_valuation_date, arg.date_range))
        /\ \A o \in CriteriaOrders :
              HoldingsBy(HoldingsBy(HoldingsBy(holdings, o[1]), o[2]), o[3]) = res
        /\ HoldingsBy(res, arg) = res
    /\ op = "filter_transactions" =>
        /\ res = SelectSeq(transactions, LAMBDA r :
                    /\ MeetsEq(r.account_id, arg.account_id)
                    /\ MeetsEq(r.type, arg.type)
                    /\ MeetsRange(r.date, arg.date_range))
        /\ \A o \in CriteriaOrders :
              TransactionsBy(TransactionsBy(TransactionsBy(transactions, o[1]), o[2]), o[3]) = res
        /\ TransactionsBy(res, arg) = res

\* a call with all three criteria supplied that keeps a row dated on the end
\* of the range and drops a row of another account
C23_Witness ==
    /\ op = "filter_holdings"
    /\ arg.account_id = "ACC-1" /\ arg.type = "Cash" /\ arg.date_range = <<<<20>>, <<20>>>>
    /\ Len(holdings) = 2 /\ Len(res) = 1
    /\ res[1].last_valuation_date = 20

----------------------------------------------------------------------------
(* Claims about the fixture loaders (SpecLoader)                            *)

----------------------------------------------------------------------------
(* Claims about the ownership tab (SpecOwnership)                           *)

\* the ownership tab as shown by either front-end
OwnershipShown == IF op = "streamlit_app" THEN res.content ELSE res
OwnershipTabShown ==
    /\ op \in {"render_ownership_tab", "streamlit_app"}
    /\ OwnershipShown.empty_state = ""

\* the percentage of the company at position i of the file
PercentageAt(i) ==
    IF "ownership_percentage" \in DOMAIN ownership.companies[i]
    THEN ownership.companies[i].ownership_percentage
    ELSE Zero

\* the tiers as the code draws them, and as the specification words them
TierBelow50(p) ==
    IF FLe(Fl(50), p) THEN "controlled"
    ELSE IF FLe(Fl(25), p) /\ FLt(p, Fl(50)) THEN "significant"
    ELSE IF FLt(p, Fl(25)) THEN "minority"
    ELSE "none"
TierUpTo49(p) ==
    IF FLe(Fl(50), p) THEN "controlled"
    ELSE IF FLe(Fl(25), p) /\ FLe(p, Fl(49)) THEN "significant"
    ELSE IF FLt(p, Fl(25)) THEN "minority"
    ELSE "none"

NodeColours == [controlled |-> "#38a169", significant |-> "#d69e2e", minority |-> "#3182ce"]
LinkColours == [controlled |-> "rgba(56, 161, 105, 0.5)",
                significant |-> "rgba(214, 158, 46, 0.5)",
                minority |-> "rgba(49, 130, 206, 0.5)"]

\* whether everything the tab shows follows the classification Tier
ShownByTier(Tier(_)) ==
    LET shown == OwnershipShown
        n == Len(ownership.companies)
    IN  /\ \A i \in 1..n :
              /\ Tier(PercentageAt(i)) \in DOMAIN NodeColours
              /\ shown.node_colors[i] = NodeColours[Tier(PercentageAt(i))]
              /\ shown.link_colors[i] = LinkColours[Tier(PercentageAt(i))]
        /\ shown.controlled_count =
              Cardinality({i \in 1..n : Tier(PercentageAt(i)) = "controlled"})
        /\ shown.minority_count =
              Cardinality({i \in 1..n : Tier(PercentageAt(i)) = "minority"})
        /\ op = "render_ownership_tab" =>
              \A i \in 1..n :
                 /\ Tier(shown.bars[i].x) \in DOMAIN NodeColours
                 /\ shown.bars[i].color = NodeColours[Tier(shown.bars[i].x)]

----------------------------------------------------------------------------
(* Claims about the requests of the two front-ends (SpecApp)                *)

Requested == op \in {"render_tab_content", "streamlit_app"}

\* the tables every request loads and filters
RequestTables == {"load_holdings", "load_transactions", "load_nav", "load_accounts"}

\* C24: after any sequence of requests (tab, date range, asset type,
\* currency, language, CSV export) the cached tables of load_holdings,
\* load_transactions, load_nav and load_accounts are what was first loaded:
\* the filters and the currency conversion write to derived copies only.
C24_CachedTablesUnchanged ==
    \A l \in RequestTables : cache[l] # <<>> => cache[l] = <<FileContent(l)>>

\* a request in dollars that selects no rows away: its holdings are the
\* converted ones, the cached table is still the loaded one
C24_Witness ==
    /\ op = "render_tab_content"
    /\ arg.currency = "USD" /\ arg.asset_type = "all" /\ arg.start_date = <<>>
    /\ Len(holdings) = 2 /\ Len(nav) = 3
    /\ res.filtered_holdings[1].valuation_current = 327
    /\ res.filtered_holdings # holdings
    /\ cache["load_holdings"] = <<holdings>>
    /\ cache["load_nav"] = <<nav>>

\* the answer to the request of arg when nothing was loaded before it
AnswerFromFixtures ==
    CASE op = "render_tab_content" ->
            render_tab_content(NoCache, arg.active_tab, arg.start_date, arg.end_date,
                               arg.currency, arg.asset_type, arg.lang).out
      [] op = "streamlit_app" ->
            streamlit_app(NoCache, arg.start_date, arg.end_date,
                          arg.currency, arg.asset_type, arg.lang).out
      [] op = "export_holdings" -> [csv |-> export_holdings(NoCache, arg.asset_type)]

\* C25: the result of a request depends only on its inputs (tab, start and
\* end date, currency, asset type, language) and on the fixtures: whatever
\* requests came before it, it is the result the same request has on the
\* freshly loaded fixtures, so the same request twice gives the same output.
C25_RequestsRepeatable ==
    op \in {"render_tab_content", "streamlit_app", "export_holdings"} =>
        res = AnswerFromFixtures

\* a summary in euros answered from the memo, after requests that loaded the
\* ownership file and the client
C25_Witness ==
    /\ op = "render_tab_content"
    /\ arg.active_tab = "summary" /\ arg.currency = "EUR"
    /\ arg.start_date = <<10>> /\ arg.end_date = <<20>>
    /\ Len(holdings) = 2 /\ Len(res.filtered_holdings) = 1
    /\ cache["load_ownership"] # <<>>
    /\ cache["load_client"] # <<>>

\* the rows of the holdings table that the filter bar of arg selects
SelectedHoldings ==
    filter_holdings(holdings, None, arg.asset_type,
                    IF arg.start_date # <<>> /\ arg.end_date # <<>>
                    THEN <<arg.start_date, arg.end_date>> ELSE <<>>)

\* C28: the CSV export is a header row followed by exactly the rows of the
\* filtered holdings table of the current request, those that the current
\* asset type and date range select, in both front-ends.
C28_CsvIsFilteredTable ==
    op \in {"export_holdings", "streamlit_app"} =>
        /\ res.csv[1] = HoldingColumns
        /\ Len(res.csv) = 1 + Len(SelectedHoldings)
        /\ \A i \in 1..Len(SelectedHoldings) :
              res.csv[i + 1][1] = SelectedHoldings[i].asset_name

\* what holds of the export: the Streamlit export is the filtered holdings
\* table of the run, values in the display currency; the Dash export is the
\* loaded table filtered by asset type alone, values as loaded
CsvOfEachFrontEnd ==
    /\ op = "streamlit_app" => res.csv = to_csv(res.filtered_holdings)
    /\ op = "export_holdings" =>
          res.csv = to_csv(filter_holdings(holdings, None, arg.asset_type, <<>>))

\* the Dash export with a date range on the filter bar that leaves out a
\* holding: the holding is in the file
CsvIgnoresDateRange ==
    /\ op = "export_holdings"
    /\ arg.start_date = <<10>> /\ arg.end_date = <<20>> /\ arg.asset_type = "all"
    /\ Len(holdings) = 2 /\ Len(SelectedHoldings) = 1
    /\ Len(res.csv) = 3

\* the request of arg in euros
InEuros ==
    IF op = "render_tab_content"
    THEN render_tab_content(NoCache, arg.active_tab, arg.start_date, arg.end_date,
                            "EUR", arg.asset_type, arg.lang).out
    ELSE streamlit_app(NoCache, arg.start_date, arg.end_date,
                       "EUR", arg.asset_type, arg.lang).out

\* the rate of each currency
RateOf(currency) ==
    CASE currency = "USD" -> Norm(109, 100)
      [] currency = "HUF" -> Fl(395)
      [] OTHER -> Fl(1)

\* the ratio metrics of a request's tables: each set-valued function by the
\* set of its outcomes
Percentages_of(allocations) ==
    {[i \in 1..Len(a) |-> [key |-> a[i].key, percentage |-> a[i].percentage]] :
        a \in allocations}
RatioMetrics(h, n) ==
    [pnl_pct |-> calculate_unrealized_pnl(h).pnl_pct,
     asset_allocation |-> Percentages_of(calculate_asset_allocation(h)),
     region_allocation |-> Percentages_of(calculate_region_allocation(h)),
     sector_allocation |-> Percentages_of(calculate_sector_allocation(h)),
     concentration |-> calculate_concentration(h, 3),
     cash_pct |-> calculate_cash_percentage(h),
     liquidity_score |-> calculate_liquidity_score(h),
     return_pct |-> {r.return_pct : r \in calculate_returns_from_nav(n, 365)},
     ytd_return |-> calculate_ytd_return(n),
     max_drawdown_pct |-> {d.max_drawdown_pct : d \in calculate_max_drawdown(n)},
     insights |-> generate_insights(h, ClientProfile)]

----------------------------------------------------------------------------
(* Claims about the NAV series (SpecNav)                                    *)

\* the date-sorted orders of the current series
SortedNav == sort_values(nav, DateOf, TRUE)

\* the largest value among the first i points of s
PeakUpTo(s, i) == CHOOSE m \in {s[j].value : j \in 1..i} : \A j \in 1..i : s[j].value <= m

\* (value - running_max) / running_max at point i of s
DrawdownAt(s, i) == Norm(s[i].value - PeakUpTo(s, i), PeakUpTo(s, i))

\* the result is the drawdown of the date-sorted series s with trough t and
\* peak p: t is where the drawdown is most negative, p <= t holds the largest
\* value up to and including t, and the percentage is
\* (trough_value - peak_value) / peak_value * 100
IsDrawdownOf(s, t, p) ==
    /\ \A j \in 1..Len(s) : FLe(DrawdownAt(s, t), DrawdownAt(s, j))
    /\ res.max_drawdown_pct = FMul(DrawdownAt(s, t), Fl(100))
    /\ res.trough_value = Fl(s[t].value)
    /\ res.trough_date = <<s[t].date>>
    /\ p <= t
    /\ s[p].value = PeakUpTo(s, t)
    /\ res.peak_value = Fl(s[p].value)
    /\ res.peak_date = <<s[p].date>>
    /\ res.max_drawdown_pct =
           FMul(Norm(s[t].value - s[p].value, s[p].value), Fl(100))

DrawdownAsClaimed ==
    \E s \in SortedNav : \E t \in 1..Len(s) : \E p \in 1..Len(s) : IsDrawdownOf(s, t, p)

\* C5 as claimed: for every NAV series of at least 2 points
\* calculate_max_drawdown reports the most negative value of
\* (value - running_max) / running_max over the date-sorted series, the trough
\* where it is reached and the peak before it, with max_drawdown_pct =
\* (trough_value - peak_value) / peak_value * 100.
C5_MaxDrawdown ==
    (op = "calculate_max_drawdown" /\ Len(nav) >= 2) => DrawdownAsClaimed

AllPositive(n) == \A i \in 1..Len(n) : n[i].value > 0

\* the same on the series whose values are all > 0
MaxDrawdownOfPositiveSeries ==
    (op = "calculate_max_drawdown" /\ Len(nav) >= 2 /\ AllPositive(nav))
        => DrawdownAsClaimed

\* the values of the series never fall as the date grows (points of one date
\* have one value, so that every date-sorted order is increasing)
MonotoneIncreasing(n) ==
    \A i, j \in 1..Len(n) :
        /\ n[i].date < n[j].date => n[i].value <= n[j].value
        /\ n[i].date = n[j].date => n[i].value = n[j].value

\* C6 as claimed: on every NAV series whose values are monotonically
\* increasing in date order calculate_max_drawdown returns
\* max_drawdown_pct = 0.
C6_MonotoneNoDrawdown ==
    (op = "calculate_max_drawdown" /\ MonotoneIncreasing(nav))
        => res.max_drawdown_pct = Zero

\* the same on the series whose values are all > 0
MonotonePositiveNoDrawdown ==
    (op = "calculate_max_drawdown" /\ MonotoneIncreasing(nav) /\ AllPositive(nav))
        => res.max_drawdown_pct = Zero

LastDate(n) == CHOOSE d \in {n[i].date : i \in 1..Len(n)} : \A i \in 1..Len(n) : n[i].date <= d

\* the points of n dated d
PointsAt(n, d) == {n[i] : i \in {k \in 1..Len(n) : n[k].date = d}}

\* the earliest of a non-empty set of points (all of them on equal dates)
Earliest(ps) == {x \in ps : \A y \in ps : x.date <= y.date}

\* pct is (end / start - 1) * 100 if start > 0, else 0
IsReturnPct(pct, end, start) ==
    /\ IsFinite(pct)
    /\ start > 0 => pct.n * start = (end - start) * 100 * pct.d
    /\ start <= 0 => pct = Zero

\* C7: with at least 2 points calculate_returns_from_nav takes end = the last
\* point by date and start = the earliest point dated >= end_date -
\* window_days, or the earliest point of the whole series when no point lies
\* in the window; return_abs = end - start and return_pct = (end / start - 1)
\* * 100 if start > 0 else 0.  With fewer than 2 points every metric is 0.
C7_ReturnsFromNav ==
    op = "calculate_returns_from_nav" =>
        IF Len(nav) < 2 THEN res = ZeroReturns
        ELSE LET points == {nav[i] : i \in 1..Len(nav)}
                 window == {x \in points : x.date >= LastDate(nav) - arg}
                 starts == IF window = {} THEN Earliest(points) ELSE Earliest(window)
             IN  \E e \in PointsAt(nav, LastDate(nav)) : \E b \in starts :
                     /\ res.end_value = Fl(e.value)
                     /\ res.start_value = Fl(b.value)
                     /\ res.return_abs = Fl(e.value - b.value)
                     /\ IsReturnPct(res.return_pct, e.value, b.value)

\* the window is empty and the start falls back to the earliest point
C7_Witness ==
    /\ op = "calculate_returns_from_nav"
    /\ arg < 0
    /\ Len(nav) = 3
    /\ res.start_value = Fl(80)
    /\ res.end_value = Fl(120)
    /\ res.return_pct = Fl(50)

\* C8: calculate_ytd_return returns (last_value / first_value_of_year - 1) *
\* 100, the year being that of the latest point and first_value_of_year the
\* earliest point dated on or after 1 January of that year; it returns 0 when
\* fewer than 2 points fall within that year or the first value is not > 0.
\* [(1 Jan, 100), (1 Jul, 120), (31 Dec, 90)] gives -10.
C8_YtdReturn ==
    op = "calculate_ytd_return" =>
        IF Len(nav) = 0 THEN res = Zero
        ELSE LET points == {nav[i] : i \in 1..Len(nav)}
                 in_year == {i \in 1..Len(nav) :
                                nav[i].date >= YearStart(Year(LastDate(nav)))}
             IN  /\ Cardinality(in_year) < 2 => res = Zero
                 /\ Cardinality(in_year) >= 2 =>
                        \E e \in PointsAt(nav, LastDate(nav)) :
                        \E b \in Earliest({nav[i] : i \in in_year}) :
                            IsReturnPct(res, e.value, b.value)
                 /\ nav = <<NavPoint(0, 100), NavPoint(181, 120), NavPoint(364, 90)>>
                        => res = Fl(-10)

\* a series that starts in the year before the last point's: the return is
\* taken from the first point of the last point's year
C8_Witness ==
    /\ op = "calculate_ytd_return"
    /\ Len(nav) = 3
    /\ (\E i \in 1..3 : nav[i].date < 365 /\ nav[i].value = 0)
    /\ Cardinality({i \in 1..3 : nav[i].date = 365}) = 2
    /\ res = Fl(-100)

----------------------------------------------------------------------------
(* Claim about empty and undersized input (SpecShort)                       *)

NoDataInsights == <<Insight("No Data", "", Zero, <<>>)>>

ZeroDrawdown ==
    [max_drawdown_pct |-> Zero, peak_value |-> Zero, trough_value |-> Zero,
     peak_date |-> NoDate, trough_date |-> NoDate]

Downsampled ==
    /\ op = "downsample_nav"
    /\ arg >= 1
    /\ res \in Seq(TurnRows)

\* C29: downsample_nav(nav, max_points) with max_points >= 1 returns at most
\* max_points rows; a series of no more than max_points rows is returned
\* unchanged; the result contains the first and the last row of the input.
C29_DownsampleBound ==
    Downsampled =>
        /\ Len(res) <= arg
        /\ Len(nav) <= arg => res = nav
        /\ Len(nav) > 0 => res[1] = nav[1] /\ res[Len(res)] = nav[Len(nav)]

\* what holds of downsample_nav: a short series unchanged, the first and the
\* last row kept, the rows in the order of the input, and fewer than twice
\* max_points rows plus one
DownsampleKeepsEnds ==
    Downsampled =>
        /\ Len(nav) <= arg => res = nav
        /\ Len(nav) > 0 => res[1] = nav[1] /\ res[Len(res)] = nav[Len(nav)]
        /\ Len(res) <= Len(nav)
        /\ Len(res) <= 2 * arg + 1

\* a series of three points downsampled to two comes back whole
DownsampleOverBound ==
    Downsampled /\ Len(nav) = 3 /\ arg = 2 /\ Len(res) = 3

============================================================================
